---- MODULE Spec2Model ----
(***************************************************************************)
(* Model of the streaming agent of openrouter-headless-agent               *)
(* (src/unnamed/part_002, the Agent class): the conversation history, the  *)
(* send / sendSync control flow with its suspension points, the reduction  *)
(* of streamed output items into text deltas, and the events emitted.      *)
(*                                                                         *)
(* Strings are sequences of characters, so that slice, prefix and          *)
(* concatenation are computed and not assumed.                             *)
(***************************************************************************)
EXTENDS Integers, Sequences, FiniteSets, TLC

(* ------------------------------ bounds -------------------------------- *)
MaxLen == 1          \* longest text a fragment or the accessor carries
MaxFrags == 3        \* items one provider stream yields at most
MaxHist == 3         \* a call starts only if its two messages fit in here
MaxInFlight == 2     \* call records (promises) the session tracks
MaxTools == 1        \* tools addTool may add to the configuration
MaxBlank == 2        \* empty lines the user enters at the prompt
MaxModels == 2       \* models in a fetched catalog

Chars == {"a", "b"}
MsgIds == {"m1", "m2"}
Slots == 1..MaxInFlight

Texts == UNION {[1..n -> Chars] : n \in 0..MaxLen}
\* what the user types for position n of the history: the lines alternate,
\* so that the user message of a failed turn and the next one differ
ContentsAt(n) == {IF n % 2 = 1 THEN <<"a">> ELSE <<"b">>}

(* ----------------------- provider-side values ------------------------- *)
ArgStrings == {"", "{\"x\":1}", "{bad"}  \* item.arguments of a function_call

\* a fragment of the stream; the fields a kind does not have are "na"
Item(type, id, hasText, text, status, arguments, name, callId, output) ==
    [type |-> type, id |-> id, hasText |-> hasText, text |-> text,
     status |-> status, arguments |-> arguments, name |-> name,
     callId |-> callId, output |-> output]

MessageItems ==
    {Item("message", i, TRUE, t, "na", "na", "na", "na", "na") :
        i \in MsgIds, t \in Texts}
    \cup
    {Item("message", i, FALSE, <<>>, "na", "na", "na", "na", "na") : i \in MsgIds}

FunctionCallItems ==
    {Item("function_call", "fc", FALSE, <<>>, s, a, "get_current_time", "call_1", "na") :
        s \in {"in_progress", "completed"}, a \in ArgStrings}

FunctionCallOutputItems ==
    {Item("function_call_output", "fo", FALSE, <<>>, "na", "na", "na",
          "call_1", "12:00")}

ReasoningItems ==
    {Item("reasoning", "r1", h, <<"a">>, "na", "na", "na", "na", "na") :
        h \in BOOLEAN}

Items == MessageItems \cup FunctionCallItems \cup FunctionCallOutputItems
            \cup ReasoningItems

\* what a provider call, a stream or the text accessor can throw: an Error
\* object or any other value
Failures == {[isError |-> TRUE, msg |-> "network"],
             [isError |-> FALSE, msg |-> "aborted"]}

\* maxSteps: config.maxSteps ?? 5
DefaultMaxSteps == 5

NoError == [isError |-> FALSE, msg |-> "none"]
SyntaxError == [isError |-> TRUE, msg |-> "SyntaxError"]

(* --------------------------- pure helpers ----------------------------- *)
\* String.prototype.slice(n) for 0 <= n
slice(s, n) == IF n >= Len(s) THEN <<>> ELSE SubSeq(s, n + 1, Len(s))

IsPrefix(p, s) == Len(p) <= Len(s) /\ SubSeq(s, 1, Len(p)) = p

\* JSON.parse(item.arguments || '{}')
ParseArgs(a) ==
    LET src == IF a = "" THEN "{}" ELSE a
    IN  IF src \in {"{}", "{\"x\":1}"}
        THEN [ok |-> TRUE, value |-> src]
        ELSE [ok |-> FALSE, value |-> "SyntaxError"]

\* variant: the value caught is passed on as it is
AsErrorUnwrapped(err) == err

\* err instanceof Error ? err : new Error(String(err))
AsError(err) == IF err.isError THEN err ELSE [isError |-> TRUE, msg |-> err.msg]

Message(role, content) == [role |-> role, content |-> content]

\* variant: a user message that was not answered is left out
CallInputAnsweredOnly(msgs) ==
    LET keep == {i \in 1..Len(msgs) :
                    ~(msgs[i].role = "user" /\ i < Len(msgs)
                         /\ msgs[i + 1].role = "user")}
        RECURSIVE Pick(_)
        Pick(i) == IF i > Len(msgs) THEN <<>>
                   ELSE (IF i \in keep
                         THEN <<Message(msgs[i].role, msgs[i].content)>>
                         ELSE <<>>) \o Pick(i + 1)
    IN  Pick(1)

\* variant: only the newest message is sent
CallInputLatestOnly(msgs) ==
    IF msgs = <<>> THEN <<>>
    ELSE <<Message(msgs[Len(msgs)].role, msgs[Len(msgs)].content)>>

\* input: this.messages.map((m) => ({ role: m.role, content: m.content }))
CallInput(msgs) == [i \in 1..Len(msgs) |-> Message(msgs[i].role, msgs[i].content)]

(* ------------------------------ events -------------------------------- *)
NoItem == Item("none", "", FALSE, <<>>, "na", "na", "na", "na", "na")

\* One emitted event: its name, the call that emitted it, the fragment that
\* caused it (0 outside the stream loop), its arguments, and the length of
\* the history a listener sees when it fires.
Ev(type, c, frag, hlen) ==
    [type |-> type, call |-> c, frag |-> frag, item |-> NoItem,
     delta |-> <<>>, text |-> <<>>, name |-> "", info |-> "",
     error |-> NoError, hlen |-> hlen]

TextEv(type, c, frag, hlen, text) == [Ev(type, c, frag, hlen) EXCEPT !.text = text]

DeltaEv(c, frag, hlen, delta, acc) ==
    [Ev("stream:delta", c, frag, hlen) EXCEPT !.delta = delta, !.text = acc]

InfoEv(type, c, frag, hlen, name, info) ==
    [Ev(type, c, frag, hlen) EXCEPT !.name = name, !.info = info]

ItemEv(c, frag, hlen, item) == [Ev("item:update", c, frag, hlen) EXCEPT !.item = item]

ErrorEv(c, frag, hlen, error) == [Ev("error", c, frag, hlen) EXCEPT !.error = error]

PerFragmentTypes ==
    {"item:update", "stream:delta", "tool:call", "tool:result", "reasoning:update"}

\* The log keeps every lifecycle event since the session was last idle and
\* the per-fragment events of the latest fragment only.
Keep(log) == SelectSeq(log, LAMBDA e : e.type \notin PerFragmentTypes)

(* ------------------------------- state -------------------------------- *)
VARIABLES
    messages,    \* Agent.messages, the history
    call,        \* per record: the activation of one send / sendSync
    events,      \* the log of emitted events
    config,      \* Agent.config: the instructions and the tools
    returned,    \* the list a caller holds from getMessages
    cli,         \* the interactive process around the agent
    pick,        \* one activation of pickFreeModelId
    report,      \* the error listener: the failure it got, what it printed
    wizard       \* one activation of runWizard

vars == <<messages, call, events, config, returned, cli, pick, report, wizard>>

\* the variables outside the agent's calls, and outside the agent
session == <<config, returned>>
outside == <<cli, pick, report, wizard>>

\* observation, per message id, of the fragments one call has consumed:
\* the last text seen, whether the texts seen were strictly prefix-growing,
\* and, as long as they were, the concatenation of the deltas emitted for
\* the fragments of the id
NoSeen == [i \in MsgIds |->
             [has |-> FALSE, text |-> <<>>, growing |-> TRUE, cat |-> <<>>]]

ReasoningIds == {"r1"}

\* observation, per reasoning id: the last reasoning text one call has
\* seen, and whether the fragment that brought it repeated the text before
NoReasoned == [i \in ReasoningIds |-> [has |-> FALSE, text |-> <<>>, again |-> FALSE]]

\* pc, content, input, fullText are the locals of send / sendSync; the other
\* fields observe the call: the number of callModel invocations it made and
\* the step budget it handed over, the history on entry, the fragments consumed,
\* whether a fragment ever carried text, the text accumulated when the loop
\* was left, whether getText was called and what it resolved to, what was
\* thrown inside the call, and how the promise settled.
IdleCall ==
    [pc |-> "idle", kind |-> "none", content |-> <<>>, before |-> <<>>,
     input |-> <<>>, modelCalls |-> 0, stopWhen |-> 0,
     fullText |-> <<>>, nfrag |-> 0, seen |-> NoSeen, reasoned |-> NoReasoned,
     everText |-> FALSE, streamed |-> <<>>, accessor |-> FALSE,
     accessed |-> <<>>, fault |-> NoError,
     outcome |-> [status |-> "none", text |-> <<>>, error |-> NoError]]

InFlight(c) == call[c].pc \in {"stream", "getText", "syncGetText"}
Idle == \A c \in Slots : ~InFlight(c)

\* a call that has settled: rejected, resolved
Failed(c) == call[c].pc = "done" /\ call[c].fault # NoError
Succeeded(c) == call[c].pc = "done" /\ call[c].fault = NoError

\* constructor, lines 46-52
DefaultConfig == [instructions |-> "You are a helpful assistant.", tools |-> <<>>]

NoneReturned == [has |-> FALSE, list |-> <<>>, shared |-> FALSE, changed |-> FALSE]

\* the process before main has run: where it is, how often it has asked
\* for input, how many of the lines it read were empty, its exit code
CliNotStarted == [pc |-> "starting", prompts |-> 0, blank |-> 0, code |-> 0]

\* an optional field: present with a value, or absent
Some(v) == [has |-> TRUE, v |-> v]
NoNumber == [has |-> FALSE, v |-> 0]
NoString == [has |-> FALSE, v |-> ""]
NoFlag == [has |-> FALSE, v |-> FALSE]
NoList == [has |-> FALSE, v |-> <<>>]

\* pickFreeModelId called without opts
NoOpts == [minContext |-> NoNumber, targetContext |-> NoNumber,
           allowModerated |-> NoFlag, preferIdIncludes |-> NoList]

\* pickFreeModelId before it is called
PickIdle == [pc |-> "idle", fetched |-> FALSE, opts |-> NoOpts,
             models |-> <<>>, result |-> <<>>]

\* the error listener before an error event is delivered to it
Pending(err) == [has |-> FALSE, err |-> err, out |-> <<>>]
NothingReported == Pending(<<>>)

\* runWizard before it is called
WizardIdle ==
    [pc |-> "idle", allModels |-> <<>>, textModels |-> <<>>, filtered |-> <<>>,
     providers |-> {}, choices |-> <<>>, model |-> <<>>]

Init ==
    /\ messages = <<>>
    /\ call = [c \in Slots |-> IdleCall]
    /\ events = <<>>
    /\ config = DefaultConfig
    /\ returned = NoneReturned
    /\ cli = CliNotStarted
    /\ pick = PickIdle
    /\ report = NothingReported
    /\ wizard = WizardIdle

(* ------------------------- entering a call ---------------------------- *)
\* A new call takes the lowest free record; records of settled calls are
\* dropped, and the event log restarts when the session was idle.
FreeSlot(c) == ~InFlight(c) /\ \A d \in Slots : d < c => InFlight(d)

Begin(c, rec, evs, hist) ==
    /\ Len(messages) + 2 <= MaxHist
    /\ FreeSlot(c)
    /\ messages' = hist
    /\ call' = [d \in Slots |->
                  IF d = c THEN rec
                  ELSE IF InFlight(d) THEN call[d] ELSE IdleCall]
    /\ events' = (IF Idle THEN <<>> ELSE Keep(events)) \o evs

Entered(kind, content, pc, hist) ==
    [IdleCall EXCEPT !.pc = pc, !.kind = kind, !.content = content,
                     !.before = messages, !.input = CallInput(hist),
                     !.modelCalls = 1, !.stopWhen = DefaultMaxSteps]

Thrown(err) == [status |-> "thrown", text |-> <<>>, error |-> AsError(err)]
Returned(text) == [status |-> "returned", text |-> text, error |-> NoError]

\* send, lines 71-86: push the user message, emit, call the model, emit
\* stream:start, then suspend on the first item of the stream
Send(c, content) ==
    LET user == Message("user", content)
        hist == Append(messages, user)
        n    == Len(hist)
    IN  Begin(c, Entered("send", content, "stream", hist),
              <<TextEv("message:user", c, 0, n, content),
                Ev("thinking:start", c, 0, n),
                Ev("stream:start", c, 0, n)>>,
              hist)

\* send, lines 71-78 and 138-144: callModel throws synchronously
SendCallThrows(c, content, err) ==
    LET user == Message("user", content)
        hist == Append(messages, user)
        n    == Len(hist)
    IN  Begin(c, [Entered("send", content, "done", hist)
                     EXCEPT !.fault = err, !.outcome = Thrown(err)],
              <<TextEv("message:user", c, 0, n, content),
                Ev("thinking:start", c, 0, n),
                ErrorEv(c, 0, n, AsError(err)),
                Ev("thinking:end", c, 0, n)>>,
              hist)

(* ------------------------ leaving a send call ------------------------- *)
\* variant: the text streamed so far is committed as the assistant message
CatchCommitsPartial(c, err, frag, pre) ==
    /\ events' = Keep(events) \o pre \o
                   <<ErrorEv(c, frag, Len(messages), AsError(err)),
                     Ev("thinking:end", c, frag, Len(messages))>>
    /\ call' = [call EXCEPT ![c].pc = "done", ![c].outcome = Thrown(err),
                            ![c].fault = err,
                            ![c].nfrag = IF frag > 0 THEN frag ELSE @]
    /\ messages' = Append(messages, Message("assistant", call[c].fullText))

\* variant: the finally block is missing, thinking:end is not emitted
CatchWithoutFinally(c, err, frag, pre) ==
    /\ events' = Keep(events) \o pre \o
                   <<ErrorEv(c, frag, Len(messages), AsError(err))>>
    /\ call' = [call EXCEPT ![c].pc = "done", ![c].outcome = Thrown(err),
                            ![c].fault = err,
                            ![c].nfrag = IF frag > 0 THEN frag ELSE @]
    /\ UNCHANGED messages

\* catch / finally of send, lines 138-144, entered from the stream loop or
\* from getText after the events pre of the current fragment
Catch(c, err, frag, pre) ==
    /\ events' = Keep(events) \o pre \o
                   <<ErrorEv(c, frag, Len(messages), AsError(err)),
                     Ev("thinking:end", c, frag, Len(messages))>>
    /\ call' = [call EXCEPT ![c].pc = "done", ![c].outcome = Thrown(err),
                            ![c].fault = err,
                            ![c].nfrag = IF frag > 0 THEN frag ELSE @]
    /\ UNCHANGED messages

\* variant: the assistant message takes the streamed text, not the final one
CompleteStreamedOnly(c, text, streamed, accessed) ==
    /\ messages' = Append(messages, Message("assistant", streamed))
    /\ events' = events \o
                   <<TextEv("stream:end", c, 0, Len(messages), text),
                     TextEv("message:assistant", c, 0, Len(messages) + 1, streamed),
                     Ev("thinking:end", c, 0, Len(messages) + 1)>>
    /\ call' = [call EXCEPT ![c].pc = "done", ![c].fullText = text,
                            ![c].streamed = streamed,
                            ![c].accessed = accessed,
                            ![c].outcome = Returned(text)]

\* variant: message:assistant is emitted before the message is pushed
CompleteEmitsBeforePush(c, text, streamed, accessed) ==
    /\ messages' = Append(messages, Message("assistant", text))
    /\ events' = events \o
                   <<TextEv("stream:end", c, 0, Len(messages), text),
                     TextEv("message:assistant", c, 0, Len(messages), text),
                     Ev("thinking:end", c, 0, Len(messages) + 1)>>
    /\ call' = [call EXCEPT ![c].pc = "done", ![c].fullText = text,
                            ![c].streamed = streamed,
                            ![c].accessed = accessed,
                            ![c].outcome = Returned(text)]

\* send, lines 131-137 and 143: stream:end, push, message:assistant, return
Complete(c, text, streamed, accessed) ==
    /\ messages' = Append(messages, Message("assistant", text))
    /\ events' = events \o
                   <<TextEv("stream:end", c, 0, Len(messages), text),
                     TextEv("message:assistant", c, 0, Len(messages) + 1, text),
                     Ev("thinking:end", c, 0, Len(messages) + 1)>>
    /\ call' = [call EXCEPT ![c].pc = "done", ![c].fullText = text,
                            ![c].streamed = streamed,
                            ![c].accessed = accessed,
                            ![c].outcome = Returned(text)]

(* ----------------------- the stream loop of send ---------------------- *)
\* line 100: newText.slice(fullText.length)
Delta(fullText, newText) == slice(newText, Len(fullText))

\* case 'message', lines 95-106: the new value of fullText and the
\* (delta, accumulated) pairs handed to stream:delta
ReduceMessage(fullText, item) ==
    IF item.hasText /\ item.text # fullText
    THEN [fullText |-> item.text,
          emit |-> <<[delta |-> Delta(fullText, item.text), acc |-> item.text]>>]
    ELSE [fullText |-> fullText, emit |-> <<>>]

\* line 109 throws: a completed function_call whose arguments do not parse
ParseThrows(item) ==
    /\ item.type = "function_call"
    /\ item.status = "completed"
    /\ ~ParseArgs(item.arguments).ok

\* variant: reasoning text is compared with the last one, like message text
DerivedReasoningOnChange(c, k, n, fullText, item) ==
    CASE item.type = "message" ->
            LET r == ReduceMessage(fullText, item)
            IN  [i \in 1..Len(r.emit) |->
                    DeltaEv(c, k, n, r.emit[i].delta, r.emit[i].acc)]
      [] item.type = "function_call" ->
            IF item.status = "completed"
            THEN <<InfoEv("tool:call", c, k, n, item.name,
                          ParseArgs(item.arguments).value)>>
            ELSE <<>>
      [] item.type = "function_call_output" ->
            <<InfoEv("tool:result", c, k, n, item.callId, item.output)>>
      [] item.type = "reasoning" ->
            IF item.hasText
                 /\ ~(call[c].reasoned[item.id].has
                        /\ call[c].reasoned[item.id].text = item.text)
            THEN <<TextEv("reasoning:update", c, k, n, item.text)>>
            ELSE <<>>

\* the events the switch emits for one item, lines 94-124
Derived(c, k, n, fullText, item) ==
    CASE item.type = "message" ->
            LET r == ReduceMessage(fullText, item)
            IN  [i \in 1..Len(r.emit) |->
                    DeltaEv(c, k, n, r.emit[i].delta, r.emit[i].acc)]
      [] item.type = "function_call" ->
            IF item.status = "completed"
            THEN <<InfoEv("tool:call", c, k, n, item.name,
                          ParseArgs(item.arguments).value)>>
            ELSE <<>>
      [] item.type = "function_call_output" ->
            <<InfoEv("tool:result", c, k, n, item.callId, item.output)>>
      [] item.type = "reasoning" ->
            IF item.hasText
            THEN <<TextEv("reasoning:update", c, k, n, item.text)>>
            ELSE <<>>

\* variant: the events of the switch are delivered one iteration late
ItemEventsDerivedLate(c, k, n, fullText, item) ==
    <<ItemEv(c, k, n, item)>> \o Derived(c, k - 1, n, fullText, item)

\* the events of one item that is handled without a throw, lines 92-124
ItemEvents(c, k, n, fullText, item) ==
    <<ItemEv(c, k, n, item)>> \o Derived(c, k, n, fullText, item)

\* variant: reasoning text is reduced into the answer like message text
AccumulateWithReasoning(fullText, item) ==
    IF item.type \in {"message", "reasoning"}
    THEN ReduceMessage(fullText, item).fullText ELSE fullText

\* fullText after one item, lines 94-124: only case 'message' assigns it
Accumulate(fullText, item) ==
    IF item.type = "message" THEN ReduceMessage(fullText, item).fullText
    ELSE fullText

\* variant: a tool result makes the agent call the model again
ModelCallsAfterToolLoop(n, item) ==
    IF item.type = "function_call_output" THEN n + 1 ELSE n

\* callModel invocations after one item, lines 91-125: the loop makes none
ModelCallsAfter(n, item) == n

RECURSIVE CatDeltas(_)
CatDeltas(evs) ==
    IF evs = <<>> THEN <<>>
    ELSE (IF Head(evs).type = "stream:delta" THEN Head(evs).delta ELSE <<>>)
            \o CatDeltas(Tail(evs))

\* what a handled item adds to the observation of its message id
Observe(seen, item, evs) ==
    IF item.type = "message" /\ item.hasText
    THEN LET prev == seen[item.id]
         IN  [seen EXCEPT ![item.id] =
                LET g == /\ prev.growing
                         /\ prev.has => /\ IsPrefix(prev.text, item.text)
                                        /\ prev.text # item.text
                IN  [has |-> TRUE, text |-> item.text, growing |-> g,
                     cat |-> IF g THEN prev.cat \o CatDeltas(evs) ELSE <<>>]]
    ELSE seen

\* what a handled item adds to the observation of its reasoning id
ObserveReasoning(reasoned, item) ==
    IF item.type = "reasoning" /\ item.hasText
    THEN [reasoned EXCEPT ![item.id] =
            [has |-> TRUE, text |-> item.text,
             again |-> @.has /\ @.text = item.text]]
    ELSE reasoned

\* one iteration of the for-await loop, lines 91-125
StreamItem(c, item) ==
    /\ call[c].pc = "stream"
    /\ call[c].nfrag < MaxFrags
    /\ LET k == call[c].nfrag + 1
           n == Len(messages)
           evs == ItemEvents(c, k, n, call[c].fullText, item)
       IN  IF ParseThrows(item)
           THEN Catch(c, SyntaxError, k, <<ItemEv(c, k, n, item)>>)
           ELSE /\ events' = Keep(events) \o evs
                /\ call' = [call EXCEPT
                      ![c].nfrag = k,
                      ![c].fullText = Accumulate(@, item),
                      ![c].modelCalls = ModelCallsAfter(@, item),
                      ![c].seen = Observe(@, item, evs),
                      ![c].reasoned = ObserveReasoning(@, item),
                      ![c].everText =
                          @ \/ (item.type = "message" /\ item.hasText
                                   /\ item.text # <<>>)]
                /\ UNCHANGED messages

\* the stream rejects while send awaits the next item
StreamFails(c, err) ==
    /\ call[c].pc = "stream"
    /\ Catch(c, err, 0, <<>>)

\* variant: the accessor is always asked
NeedsAccessorAlways(fullText) == TRUE

\* line 127: the accessor is needed when no text was accumulated
NeedsAccessor(fullText) == fullText = <<>>

\* the stream is exhausted, lines 127-137: with text, complete at once;
\* without, suspend on result.getText()
StreamEnds(c) ==
    /\ call[c].pc = "stream"
    /\ IF NeedsAccessor(call[c].fullText)
       THEN /\ call' = [call EXCEPT ![c].pc = "getText", ![c].accessor = TRUE,
                                    ![c].streamed = call[c].fullText]
            /\ UNCHANGED <<messages, events>>
       ELSE Complete(c, call[c].fullText, call[c].fullText, <<>>)

\* line 128 resolves
GetTextResolves(c, text) ==
    /\ call[c].pc = "getText"
    /\ Complete(c, text, call[c].streamed, text)

\* line 128 rejects
GetTextRejects(c, err) ==
    /\ call[c].pc = "getText"
    /\ Catch(c, err, 0, <<>>)

(* ------------------------------ sendSync ------------------------------ *)
\* lines 147-161: push, emit, call the model, suspend on getText
SendSync(c, content) ==
    LET user == Message("user", content)
        hist == Append(messages, user)
    IN  Begin(c, [Entered("sendSync", content, "syncGetText", hist)
                     EXCEPT !.accessor = TRUE],
              <<TextEv("message:user", c, 0, Len(hist), content)>>,
              hist)

\* lines 147-153 and 167-171: callModel throws synchronously
SendSyncCallThrows(c, content, err) ==
    LET user == Message("user", content)
        hist == Append(messages, user)
    IN  Begin(c, [Entered("sendSync", content, "done", hist)
                     EXCEPT !.fault = err, !.outcome = Thrown(err)],
              <<TextEv("message:user", c, 0, Len(hist), content),
                ErrorEv(c, 0, Len(hist), AsError(err))>>,
              hist)

\* lines 161-166
SyncGetTextResolves(c, text) ==
    /\ call[c].pc = "syncGetText"
    /\ messages' = Append(messages, Message("assistant", text))
    /\ events' = events \o
                   <<TextEv("message:assistant", c, 0, Len(messages) + 1, text)>>
    /\ call' = [call EXCEPT ![c].pc = "done", ![c].fullText = text,
                            ![c].accessed = text,
                            ![c].outcome = Returned(text)]

\* lines 167-171
SyncGetTextRejects(c, err) ==
    /\ call[c].pc = "syncGetText"
    /\ events' = events \o <<ErrorEv(c, 0, Len(messages), AsError(err))>>
    /\ call' = [call EXCEPT ![c].pc = "done", ![c].fault = err,
                            ![c].outcome = Thrown(err)]
    /\ UNCHANGED messages

(* -------------------------- session operations ------------------------ *)
\* lines 59-61
ClearHistory ==
    /\ messages' = <<>>
    /\ call' = [d \in Slots |-> IF InFlight(d) THEN call[d] ELSE IdleCall]
    /\ UNCHANGED events

\* lines 63-65
SetInstructions(instructions) ==
    /\ config' = [config EXCEPT !.instructions = instructions]
    /\ UNCHANGED <<messages, call, events, returned>>

\* lines 67-69
AddTool(newTool) ==
    /\ Len(config.tools) < MaxTools
    /\ config' = [config EXCEPT !.tools = Append(@, newTool)]
    /\ UNCHANGED <<messages, call, events, returned>>

\* variant: the caller is handed the history list itself
GetMessagesAliased(msgs) ==
    [has |-> TRUE, list |-> msgs, shared |-> TRUE, changed |-> FALSE]

\* line 56: [...this.messages], a new list with the same elements
GetMessagesResult(msgs) ==
    [has |-> TRUE, list |-> [i \in 1..Len(msgs) |-> msgs[i]],
     shared |-> FALSE, changed |-> FALSE]

\* lines 55-57
GetMessages ==
    /\ returned' = GetMessagesResult(messages)
    /\ UNCHANGED <<messages, call, events, config>>

\* what a caller can do to the list it was handed: push a message of its
\* own, pop the last element, overwrite the first
ListOps == {"push", "pop", "set"}
Forged == Message("system", <<"b">>)

ChangedList(list, op) ==
    CASE op = "push" -> Append(list, Forged)
      [] op = "pop"  -> SubSeq(list, 1, Len(list) - 1)
      [] op = "set"  -> [list EXCEPT ![1] = Forged]

\* the caller changes the list returned by getMessages (line 56); the
\* history is that list only if the caller was handed the history itself
ChangeReturned(op) ==
    /\ returned.has /\ ~returned.changed
    /\ op \in {"pop", "set"} => returned.list # <<>>
    /\ returned' = [returned EXCEPT !.list = ChangedList(@, op), !.changed = TRUE]
    /\ messages' = IF returned.shared THEN ChangedList(returned.list, op)
                   ELSE messages
    /\ UNCHANGED <<call, events, config>>

(* --------------------------- specification ---------------------------- *)
\* The caller awaits each call before the next session operation (the
\* documented precondition of send).
Next ==
    \/ \E c \in Slots, content \in ContentsAt(Len(messages) + 1) :
          Idle /\ Send(c, content) /\ UNCHANGED <<session, outside>>
    \/ \E c \in Slots, content \in ContentsAt(Len(messages) + 1), err \in Failures :
          Idle /\ SendCallThrows(c, content, err) /\ UNCHANGED <<session, outside>>
    \/ \E c \in Slots, item \in Items :
          StreamItem(c, item) /\ UNCHANGED <<session, outside>>
    \/ \E c \in Slots, err \in Failures :
          StreamFails(c, err) /\ UNCHANGED <<session, outside>>
    \/ \E c \in Slots : StreamEnds(c) /\ UNCHANGED <<session, outside>>
    \/ \E c \in Slots, text \in Texts :
          GetTextResolves(c, text) /\ UNCHANGED <<session, outside>>
    \/ \E c \in Slots, err \in Failures :
          GetTextRejects(c, err) /\ UNCHANGED <<session, outside>>
    \/ \E c \in Slots, content \in ContentsAt(Len(messages) + 1) :
          Idle /\ SendSync(c, content) /\ UNCHANGED <<session, outside>>
    \/ \E c \in Slots, content \in ContentsAt(Len(messages) + 1), err \in Failures :
          Idle /\ SendSyncCallThrows(c, content, err) /\ UNCHANGED <<session, outside>>
    \/ \E c \in Slots, text \in Texts :
          SyncGetTextResolves(c, text) /\ UNCHANGED <<session, outside>>
    \/ \E c \in Slots, err \in Failures :
          SyncGetTextRejects(c, err) /\ UNCHANGED <<session, outside>>
    \/ Idle /\ ClearHistory /\ UNCHANGED <<session, outside>>

Spec == Init /\ [][Next]_vars

(* -------------------- the session and its operations ------------------ *)
\* The operations of the session in any order, the sends one at a time; the
\* other operations are synchronous and may also run while a call is
\* suspended, and the caller may change the list it holds at any moment.
InstructionTexts == {"Be concise."}
ToolNames == {"get_current_time"}

\* provider responses of this specification: one answer text, streamed or
\* from the accessor, and a tool call that fails
SessionTexts == {<<"a">>}
SessionItems ==
    {it \in Items :
        \/ it.type = "message" /\ it.id = "m1" /\ it.hasText
              /\ it.text \in SessionTexts
        \/ ParseThrows(it)}

NextSession ==
    \/ \E c \in Slots, content \in ContentsAt(Len(messages) + 1) :
          Idle /\ Send(c, content) /\ UNCHANGED <<session, outside>>
    \/ \E c \in Slots, content \in ContentsAt(Len(messages) + 1), err \in Failures :
          Idle /\ SendCallThrows(c, content, err) /\ UNCHANGED <<session, outside>>
    \/ \E c \in Slots, item \in SessionItems :
          StreamItem(c, item) /\ UNCHANGED <<session, outside>>
    \/ \E c \in Slots : StreamEnds(c) /\ UNCHANGED <<session, outside>>
    \/ \E c \in Slots, text \in SessionTexts :
          GetTextResolves(c, text) /\ UNCHANGED <<session, outside>>
    \/ \E c \in Slots, content \in ContentsAt(Len(messages) + 1) :
          Idle /\ SendSync(c, content) /\ UNCHANGED <<session, outside>>
    \/ \E c \in Slots, text \in SessionTexts :
          SyncGetTextResolves(c, text) /\ UNCHANGED <<session, outside>>
    \/ \E c \in Slots, err \in Failures :
          SyncGetTextRejects(c, err) /\ UNCHANGED <<session, outside>>
    \/ ClearHistory /\ UNCHANGED <<session, outside>>
    \/ \E i \in InstructionTexts : SetInstructions(i) /\ UNCHANGED outside
    \/ \E t \in ToolNames : AddTool(t) /\ UNCHANGED outside
    \/ GetMessages /\ UNCHANGED outside
    \/ \E op \in ListOps : ChangeReturned(op) /\ UNCHANGED outside

SpecSession == Init /\ [][NextSession]_vars

(* ------------------------- overlapping sends -------------------------- *)
\* The caller does not await a send before it starts the next one: send has
\* no guard of its own (lines 71-73), so a call may start in any state.
NextConcurrent ==
    \/ \E c \in Slots, content \in ContentsAt(Len(messages) + 1) :
          Send(c, content) /\ UNCHANGED <<session, outside>>
    \/ \E c \in Slots, item \in SessionItems :
          StreamItem(c, item) /\ UNCHANGED <<session, outside>>
    \/ \E c \in Slots, err \in Failures :
          StreamFails(c, err) /\ UNCHANGED <<session, outside>>
    \/ \E c \in Slots : StreamEnds(c) /\ UNCHANGED <<session, outside>>
    \/ \E c \in Slots, text \in SessionTexts :
          GetTextResolves(c, text) /\ UNCHANGED <<session, outside>>

SpecConcurrent == Init /\ [][NextConcurrent]_vars

(* ------------------------- choosing a model --------------------------- *)
\* src/src/models.ts.  Ids and needles are sequences of characters, so that
\* toLowerCase and includes are computed.
IdPlain == <<"p", "r", "o">>
IdFree == <<"x", ":", "F", "R", "E", "E">>
IdTrial == <<"t", "r", "i", "a", "l">>
ModelIds == {IdPlain, IdFree, IdTrial}

\* line 86
FallbackId ==
    <<"o", "p", "e", "n", "r", "o", "u", "t", "e", "r", "/", "a", "u", "t", "o">>

\* line 67: ['free', 'trial']
DefaultNeedles == << <<"f", "r", "e", "e">>, <<"t", "r", "i", "a", "l">> >>

Pricing(p, c, r) == [prompt |-> p, completion |-> c, request |-> r]
AllZero == Pricing(Some("0"), Some("0"), Some("0"))

PriceCases ==
    {Pricing(NoString, NoString, NoString),
     AllZero,
     Pricing(Some("0.000001"), Some("0"), Some("0")),
     Pricing(Some("0"), Some("0.000001"), NoString),
     Pricing(Some("0"), Some("0"), Some("0.000001")),
     Pricing(Some("n/a"), Some("0"), NoString)}

Model(id, ctx, pricing, moderated) ==
    [id |-> id, context_length |-> ctx, pricing |-> pricing,
     is_moderated |-> moderated]

\* the models of a catalog: every pricing case, every id with every context
\* length, and both values of the moderation flag
Models ==
    {Model(IdPlain, Some(8000), p, NoFlag) : p \in PriceCases}
    \cup
    {Model(i, c, AllZero, NoFlag) :
        i \in ModelIds, c \in {NoNumber, Some(8000), Some(24000)}}
    \cup
    {Model(IdPlain, Some(24000), AllZero, Some(f)) : f \in BOOLEAN}

\* what fetchModels resolves to, lines 44-45
Catalogs == UNION {[1..n -> Models] : n \in 0..MaxModels}

OptsGiven ==
    [minContext : {NoNumber, Some(8000)},
     targetContext : {NoNumber, Some(16000)},
     allowModerated : {NoFlag, Some(FALSE)},
     preferIdIncludes :
        {NoList, Some(<<>>), Some(<< <<"t", "r", "i", "a", "l">>, <<"f", "r", "e", "e">> >>)}]

\* lines 17-24, on a pricing field: the number in millionths, or NaN
asNumber(x) ==
    IF ~x.has THEN [finite |-> FALSE, n |-> 0]
    ELSE CASE x.v = "0"        -> [finite |-> TRUE, n |-> 0]
           [] x.v = "0.000001" -> [finite |-> TRUE, n |-> 1]
           [] x.v = "0.000002" -> [finite |-> TRUE, n |-> 2]
           [] x.v = "0.00001"  -> [finite |-> TRUE, n |-> 10]
           [] OTHER            -> [finite |-> FALSE, n |-> 0]

\* String.prototype.toLowerCase on the characters ids are made of
toLowerCase(str) ==
    [i \in 1..Len(str) |->
        CASE str[i] = "F" -> "f"
          [] str[i] = "R" -> "r"
          [] str[i] = "E" -> "e"
          [] OTHER -> str[i]]

\* String.prototype.includes
includes(str, needle) ==
    \E i \in 0..(Len(str) - Len(needle)) :
        SubSeq(str, i + 1, i + Len(needle)) = needle

Abs(x) == IF x < 0 THEN -x ELSE x

\* variant: only the prompt and completion prices are looked at
isFreePromptAndCompletion(m) ==
    /\ asNumber(m.pricing.prompt).finite => asNumber(m.pricing.prompt).n = 0
    /\ asNumber(m.pricing.completion).finite => asNumber(m.pricing.completion).n = 0

\* lines 70-78
isFree(m) ==
    LET prompt     == asNumber(m.pricing.prompt)
        completion == asNumber(m.pricing.completion)
        request    == asNumber(m.pricing.request)
    IN  /\ (IF prompt.finite THEN prompt.n = 0 ELSE TRUE)
        /\ (IF completion.finite THEN completion.n = 0 ELSE TRUE)
        /\ (IF request.finite THEN request.n = 0 ELSE TRUE)

\* m.context_length ?? 0
ContextOf(m) == IF m.context_length.has THEN m.context_length.v ELSE 0

\* lines 64-67: the defaults of the options
MinContextOf(opts) == IF opts.minContext.has THEN opts.minContext.v ELSE 0
AllowModeratedOf(opts) ==
    IF opts.allowModerated.has THEN opts.allowModerated.v ELSE TRUE
NeedlesOf(opts) ==
    IF opts.preferIdIncludes.has THEN opts.preferIdIncludes.v ELSE DefaultNeedles

\* lines 80-83
ctxOk(m, opts) == ContextOf(m) >= MinContextOf(opts)
moderationOk(m, opts) ==
    IF AllowModeratedOf(opts) THEN TRUE
    ELSE ~(IF m.is_moderated.has THEN m.is_moderated.v ELSE FALSE)

\* lines 69-84: models.filter(...)
free(models, opts) ==
    SelectSeq(models, LAMBDA m : isFree(m) /\ ctxOk(m, opts) /\ moderationOk(m, opts))

\* free.find(...) of line 90: the first model whose id contains the needle
RECURSIVE find(_, _)
find(list, needle) ==
    IF list = <<>> THEN [found |-> FALSE, id |-> <<>>]
    ELSE IF includes(toLowerCase(Head(list).id), toLowerCase(needle))
         THEN [found |-> TRUE, id |-> Head(list).id]
         ELSE find(Tail(list), needle)

\* variant: the needles are merged, the first model that contains any wins
preferredMerged(list, needles) ==
    LET hits == {i \in 1..Len(list) :
                    \E j \in 1..Len(needles) :
                        includes(toLowerCase(list[i].id), toLowerCase(needles[j]))}
    IN  IF hits = {} THEN [found |-> FALSE, id |-> <<>>]
        ELSE [found |-> TRUE,
              id |-> list[CHOOSE i \in hits : \A h \in hits : i <= h].id]

\* lines 89-92: the needles in order, the first hit wins
RECURSIVE preferred(_, _)
preferred(list, needles) ==
    IF needles = <<>> THEN [found |-> FALSE, id |-> <<>>]
    ELSE LET hit == find(list, Head(needles))
         IN  IF hit.found THEN hit ELSE preferred(list, Tail(needles))

\* lines 98-102
scoreOf(m, opts) ==
    [m |-> m, ctx |-> ContextOf(m),
     distance |-> IF opts.targetContext.has
                  THEN Abs(ContextOf(m) - opts.targetContext.v) ELSE 0]

\* variant: at equal distance the smaller context goes first
compareSmallerFirst(a, b, opts) ==
    IF opts.targetContext.has /\ a.distance # b.distance
    THEN a.distance - b.distance
    ELSE a.ctx - b.ctx

\* lines 103-106: the comparator of sort
compare(a, b, opts) ==
    IF opts.targetContext.has /\ a.distance # b.distance
    THEN a.distance - b.distance
    ELSE b.ctx - a.ctx

\* Array.prototype.sort, which is stable: x goes behind what is not after it
RECURSIVE insert(_, _, _)
insert(sorted, x, opts) ==
    IF sorted = <<>> THEN <<x>>
    ELSE IF compare(Head(sorted), x, opts) <= 0
         THEN <<Head(sorted)>> \o insert(Tail(sorted), x, opts)
         ELSE <<x>> \o sorted

RECURSIVE sort(_, _)
sort(list, opts) ==
    IF list = <<>> THEN <<>>
    ELSE insert(sort(SubSeq(list, 1, Len(list) - 1), opts), list[Len(list)], opts)

\* lines 89-108, for a list of survivors that is not empty
choose(list, opts) ==
    LET hit == preferred(list, NeedlesOf(opts))
    IN  IF hit.found THEN hit.id
        ELSE sort([i \in 1..Len(list) |-> scoreOf(list[i], opts)], opts)[1].m.id

\* variant: the empty list is not looked for, scored[0] is undefined
pickFreeModelIdUnguarded(models, opts) ==
    IF Len(free(models, opts)) = 0
    THEN [ok |-> FALSE, id |-> <<>>]
    ELSE [ok |-> TRUE, id |-> choose(free(models, opts), opts)]

\* lines 64-108: the id returned for a fetched catalog
pickFreeModelId(models, opts) ==
    IF Len(free(models, opts)) = 0
    THEN [ok |-> TRUE, id |-> FallbackId]
    ELSE [ok |-> TRUE, id |-> choose(free(models, opts), opts)]

\* lines 52-62: the call, suspended on fetchModels()
PickStarts(opts) ==
    /\ pick.pc = "idle"
    /\ pick' = [pick EXCEPT !.pc = "fetching", !.opts = opts]
    /\ UNCHANGED <<messages, call, events, session, cli, report, wizard>>

\* lines 62-108: the catalog arrives and the id is returned
FetchResolves(models) ==
    /\ pick.pc = "fetching"
    /\ LET r == pickFreeModelId(models, pick.opts)
       IN  pick' = [pick EXCEPT !.pc = IF r.ok THEN "done" ELSE "failed",
                                !.fetched = TRUE, !.models = models,
                                !.result = r.id]
    /\ UNCHANGED <<messages, call, events, session, cli, report, wizard>>

\* lines 40-42, 62: fetchModels rejects and so does pickFreeModelId
FetchRejects ==
    /\ pick.pc = "fetching"
    /\ pick' = [pick EXCEPT !.pc = "failed"]
    /\ UNCHANGED <<messages, call, events, session, cli, report, wizard>>

NextPick ==
    \/ \E opts \in OptsGiven \cup {NoOpts} : PickStarts(opts)
    \/ \E models \in Catalogs : FetchResolves(models)
    \/ FetchRejects

SpecPick == Init /\ [][NextPick]_vars

(* ----------------------- the interactive process ---------------------- *)
\* part_003, main (lines 5-115) and startAgent (264-351): both run the same
\* prompt loop around agent.send.

\* lines 7-11, 372-375: required configuration is missing
CliStartupFails ==
    /\ cli.pc = "starting"
    /\ cli' = [cli EXCEPT !.pc = "exited", !.code = 1]
    /\ UNCHANGED <<messages, call, events, session, pick, report, wizard>>

\* lines 100-114: the first prompt()
CliStarts ==
    /\ cli.pc = "starting"
    /\ cli' = [cli EXCEPT !.pc = "prompt", !.prompts = 1]
    /\ UNCHANGED <<messages, call, events, session, pick, report, wizard>>

\* lines 106-108: the line read is empty after trim, prompt() again
CliBlankLine ==
    /\ cli.pc = "prompt"
    /\ cli.blank < MaxBlank
    /\ cli' = [cli EXCEPT !.prompts = @ + 1, !.blank = @ + 1]
    /\ UNCHANGED <<messages, call, events, session, pick, report, wizard>>

\* lines 106-109: the line read is handed to agent.send, which runs up to
\* its first suspension; the callback is suspended at the await
CliSubmit(c, content) ==
    /\ cli.pc = "prompt"
    /\ Idle
    /\ Send(c, content)
    /\ cli' = [cli EXCEPT !.pc = "busy"]
    /\ UNCHANGED <<session, pick, report, wizard>>

\* lines 106-109: agent.send fails before it suspends
CliSubmitThrows(c, content, err) ==
    /\ cli.pc = "prompt"
    /\ Idle
    /\ SendCallThrows(c, content, err)
    /\ cli' = [cli EXCEPT !.pc = "busy"]
    /\ UNCHANGED <<session, pick, report, wizard>>

\* lines 109-110: the send resolved, the callback goes on to prompt()
CliPromptsAgain ==
    /\ cli.pc = "busy"
    /\ \E c \in Slots : Succeeded(c)
    /\ cli' = [cli EXCEPT !.pc = "prompt", !.prompts = @ + 1]
    /\ UNCHANGED <<messages, call, events, session, pick, report, wizard>>

\* line 109: the send rejected.  The await throws inside the async callback
\* of rl.question, which nothing awaits or catches, so line 110 is not
\* reached.  What the runtime does with the unhandled rejection depends on
\* its mode: it ends the process with code 1 ...
CliRejectionExits ==
    /\ cli.pc = "busy"
    /\ \E c \in Slots : Failed(c)
    /\ cli' = [cli EXCEPT !.pc = "exited", !.code = 1]
    /\ UNCHANGED <<messages, call, events, session, pick, report, wizard>>

\* ... or it only warns: the process lives on with no question pending
CliRejectionStalls ==
    /\ cli.pc = "busy"
    /\ \E c \in Slots : Failed(c)
    /\ cli' = [cli EXCEPT !.pc = "stalled"]
    /\ UNCHANGED <<messages, call, events, session, pick, report, wizard>>

NextCli ==
    \/ CliStartupFails
    \/ CliStarts
    \/ CliBlankLine
    \/ \E c \in Slots, content \in ContentsAt(Len(messages) + 1) :
          CliSubmit(c, content)
    \/ \E c \in Slots, content \in ContentsAt(Len(messages) + 1), err \in Failures :
          CliSubmitThrows(c, content, err)
    \/ \E c \in Slots, item \in SessionItems :
          StreamItem(c, item) /\ UNCHANGED <<session, outside>>
    \/ \E c \in Slots, err \in Failures :
          StreamFails(c, err) /\ UNCHANGED <<session, outside>>
    \/ \E c \in Slots : StreamEnds(c) /\ UNCHANGED <<session, outside>>
    \/ \E c \in Slots, text \in SessionTexts :
          GetTextResolves(c, text) /\ UNCHANGED <<session, outside>>
    \/ \E c \in Slots, err \in Failures :
          GetTextRejects(c, err) /\ UNCHANGED <<session, outside>>
    \/ CliPromptsAgain
    \/ CliRejectionExits
    \/ CliRejectionStalls

SpecCli == Init /\ [][NextCli]_vars

(* ------------------------- reporting an error ------------------------- *)
\* part_003, formatMaybeJsonError: the listener of 'error' in the headless
\* entry point (lines 36-93, 98) and, word for word, in the CLI (275-329,
\* 334).  A string is a sequence of tokens: single characters, and the
\* members of a JSON object as one token, so that trim, startsWith, endsWith
\* and the two JSON.parse calls are computed.

HeadCount == 12       \* line 80: available.slice(0, 12)
MaxProviders == 15    \* entries of available_providers at most

\* a value that should be a list: absent, an array, or something else
NoArray == [kind |-> "absent", items |-> <<>>]
Array(items) == [kind |-> "array", items |-> items]
NotArray == [kind |-> "other", items |-> <<>>]

\* the names of n providers, in order
Providers(n) == [i \in 1..n |-> i]

\* the object a JSON text stands for: whether it has an error member, and
\* of that its message, its code and the two lists of its metadata
Doc(hasError, message, code, requested, available) ==
    [hasError |-> hasError, message |-> message, code |-> code,
     requested |-> requested, available |-> available]

NoDoc == Doc(FALSE, NoString, NoNumber, NoArray, NoArray)

Docs ==
    {NoDoc}
    \cup
    {Doc(TRUE, m, NoNumber, NoArray, Array(Providers(2))) : m \in {NoString, Some("")}}
    \cup
    {Doc(TRUE, Some("No endpoints found"), c, r, a) :
        c \in {NoNumber, Some(404)},
        r \in {NoArray, Array(<<>>), Array(Providers(2))},
        a \in {NoArray, NotArray} \cup {Array(Providers(n)) : n \in 0..MaxProviders}}

\* tokens: a character, or the members of an object (escaped inside a
\* string literal)
Tok(ch) == [ch |-> ch, doc |-> NoDoc]
MembersTok(d, escaped) ==
    [ch |-> IF escaped THEN "escaped members" ELSE "members", doc |-> d]

Space == Tok(" ")
Quote == Tok("\"")

\* JSON.stringify of an object: compact, between braces
JSONstringify(d) == <<Tok("{"), MembersTok(d, FALSE), Tok("}")>>

\* the JSON string literal of a string: quotes around the escaped characters
Escape(str) ==
    [i \in 1..Len(str) |->
        CASE str[i].ch = "members" -> MembersTok(str[i].doc, TRUE)
          [] str[i].ch = "\""      -> Tok("escaped quote")
          [] OTHER                 -> str[i]]

Unescape(str) ==
    [i \in 1..Len(str) |->
        CASE str[i].ch = "escaped members" -> MembersTok(str[i].doc, FALSE)
          [] str[i].ch = "escaped quote"   -> Quote
          [] OTHER                         -> str[i]]

Quoted(str) == <<Quote>> \o Escape(str) \o <<Quote>>

\* String.prototype.trim
trim(str) ==
    LET solid == {i \in 1..Len(str) : str[i].ch # " "}
    IN  IF solid = {} THEN <<>>
        ELSE SubSeq(str, CHOOSE i \in solid : \A j \in solid : i <= j,
                         CHOOSE i \in solid : \A j \in solid : j <= i)

\* String.prototype.startsWith / endsWith, the pattern given by characters
startsWith(str, pat) ==
    /\ Len(pat) <= Len(str)
    /\ \A i \in 1..Len(pat) : str[i].ch = pat[i]

endsWith(str, pat) ==
    /\ Len(pat) <= Len(str)
    /\ \A i \in 1..Len(pat) : str[Len(str) - Len(pat) + i].ch = pat[i]

ParseError == [ok |-> FALSE, type |-> "none", doc |-> NoDoc, str |-> <<>>]

\* JSON.parse: an object text gives the object, a string literal gives the
\* string, anything else throws; whitespace around the value is skipped
JSONparse(text) ==
    LET t == trim(text)
        n == Len(t)
    IN  IF n = 3 /\ t[1].ch = "{" /\ t[2].ch = "members" /\ t[3].ch = "}"
        THEN [ok |-> TRUE, type |-> "object", doc |-> t[2].doc, str |-> <<>>]
        ELSE IF /\ n >= 2 /\ t[1].ch = "\"" /\ t[n].ch = "\""
                /\ \A i \in 2..(n - 1) : t[i].ch \notin {"\"", "\\", "members"}
             THEN [ok |-> TRUE, type |-> "string", doc |-> NoDoc,
                   str |-> Unescape(SubSeq(t, 2, n - 1))]
             ELSE ParseError

\* a field of the failure value: undefined, a string, or a number
Undefined == [type |-> "undefined", str |-> <<>>, num |-> 0]
Str(str) == [type |-> "string", str |-> str, num |-> 0]
Num(n) == [type |-> "number", str |-> <<>>, num |-> n]

\* JavaScript truthiness of a field
Truthy(f) ==
    \/ f.type = "string" /\ f.str # <<>>
    \/ f.type = "number" /\ f.num # 0

\* the failure value: e.body, e.message, e.error.message, and whether the
\* object refers to itself, which makes JSON.stringify throw
Failure(body, message, nested, circular) ==
    [body |-> body, message |-> message, nested |-> nested, circular |-> circular]

\* what the function returns, by the return statement that produced it
Out(kind, text, lines, num) ==
    [threw |-> FALSE, kind |-> kind, text |-> text, lines |-> lines, num |-> num]

Uncaught == [threw |-> TRUE, kind |-> "throw", text |-> <<>>, lines |-> <<>>, num |-> 0]

\* one line of the summary
Line(kind, message, code, items, more) ==
    [kind |-> kind, message |-> message, code |-> code, items |-> items, more |-> more]

\* line 40-41: the first candidate that is a string
raw(e) ==
    LET candidates == <<e.body, e.message, e.nested>>
        strings == {i \in 1..3 : candidates[i].type = "string"}
    IN  IF strings = {} THEN Undefined
        ELSE candidates[CHOOSE i \in strings : \A j \in strings : i <= j]

\* lines 43-51
fallback(e) ==
    IF Truthy(raw(e)) THEN Out("raw", raw(e).str, <<>>, 0)
    ELSE IF Truthy(e.message)
         THEN Out("String(e.message)", e.message.str, <<>>, e.message.num)
         ELSE IF ~e.circular THEN Out("JSON.stringify(e)", <<>>, <<>>, 0)
              ELSE Out("String(err)", <<>>, <<>>, 0)

\* variant: every entry is listed and nothing is counted
availableLineUntruncated(available) ==
    IF available.kind = "array" /\ Len(available.items) > 0
    THEN <<Line("available_providers", "", NoNumber, available.items, NoNumber)>>
    ELSE <<>>

\* lines 79-83
availableLine(available) ==
    IF available.kind = "array" /\ Len(available.items) > 0
    THEN LET head == SubSeq(available.items, 1,
                            IF Len(available.items) < HeadCount
                            THEN Len(available.items) ELSE HeadCount)
             more == IF Len(available.items) > Len(head)
                     THEN Some(Len(available.items) - Len(head)) ELSE NoNumber
         IN  <<Line("available_providers", "", NoNumber, head, more)>>
    ELSE <<>>

\* lines 67-89: the summary of a parsed object
summary(parsed) ==
    IF parsed.hasError /\ parsed.message.has /\ parsed.message.v # ""
    THEN Out("summary", <<>>,
             <<Line("message", parsed.message.v, parsed.code, <<>>, NoNumber)>>
               \o (IF parsed.requested.kind = "array" /\ Len(parsed.requested.items) > 0
                   THEN <<Line("requested_providers", "", NoNumber,
                               parsed.requested.items, NoNumber)>>
                   ELSE <<>>)
               \o availableLine(parsed.available),
             0)
    ELSE Out("JSON.stringify(parsed)", JSONstringify(parsed), <<>>, 0)

\* variant: there is no try around the parsing
catchRethrows(rawText) == Uncaught

\* lines 90-92
catch(rawText) == Out("raw", rawText, <<>>, 0)

\* lines 36-93
formatMaybeJsonError(e) ==
    IF ~Truthy(raw(e)) THEN fallback(e)
    ELSE LET trimmed == trim(raw(e).str)
             maybeJson ==
                 \/ startsWith(trimmed, <<"{">>) /\ endsWith(trimmed, <<"}">>)
                 \/ startsWith(trimmed, <<"\"", "{">>)
                      /\ endsWith(trimmed, <<"}", "\"">>)
         IN  IF ~maybeJson THEN Out("raw", raw(e).str, <<>>, 0)
             ELSE LET outer == IF startsWith(trimmed, <<"\"">>)
                               THEN JSONparse(trimmed)
                               ELSE [ok |-> TRUE, type |-> "string",
                                     doc |-> NoDoc, str |-> trimmed]
                      parsed == IF outer.ok /\ outer.type = "string"
                                THEN JSONparse(outer.str) ELSE ParseError
                  IN  IF parsed.ok /\ parsed.type = "object"
                      THEN summary(parsed.doc)
                      ELSE catch(raw(e).str)

\* the strings a failure value carries
JsonTexts ==
    {JSONstringify(d) : d \in Docs}
    \cup {<<Space>> \o JSONstringify(d) \o <<Space>> :
            d \in {Doc(TRUE, Some("No endpoints found"), Some(404), NoArray,
                       Array(Providers(MaxProviders)))}}
    \cup {<<Tok("{"), Tok("!"), Tok("}")>>}

RawStrings ==
    JsonTexts
    \cup {Quoted(t) : t \in JsonTexts}
    \cup {<<>>, <<Space>>, <<Tok("x")>>, Quoted(<<Tok("x")>>),
          <<Quote, Tok("{"), Tok("\\"), Tok("}"), Quote>>,
          <<Space, Quote, Tok("{"), Tok("!"), Tok("}"), Quote>>,
          <<Tok("{"), MembersTok(NoDoc, FALSE), Tok("}"), Tok("x")>>}

\* the failure values: every string in each of the three places, and every
\* combination of short strings and values that are no strings
FailureValues ==
    {Failure(Str(t), Undefined, Undefined, FALSE) : t \in RawStrings}
    \cup {Failure(Undefined, Str(t), Undefined, FALSE) : t \in RawStrings}
    \cup {Failure(Undefined, Undefined, Str(t), FALSE) : t \in RawStrings}
    \cup {Failure(b, m, n, c) :
            b \in {Undefined, Num(500), Str(<<Tok("b")>>), Str(<<>>)},
            m \in {Undefined, Num(42), Num(0), Str(<<Tok("m")>>)},
            n \in {Undefined, Num(7), Str(<<Tok("n")>>)},
            c \in BOOLEAN}

\* lines 98, 334: the listener of 'error' formats what it is given
ErrorListener ==
    /\ ~report.has
    /\ report' = [report EXCEPT !.has = TRUE,
                                !.out = formatMaybeJsonError(report.err)]
    /\ UNCHANGED <<messages, call, events, session, cli, pick, wizard>>

\* an error event is about to be delivered, with any failure value
InitReport ==
    /\ messages = <<>>
    /\ call = [c \in Slots |-> IdleCall]
    /\ events = <<>>
    /\ config = DefaultConfig
    /\ returned = NoneReturned
    /\ cli = CliNotStarted
    /\ pick = PickIdle
    /\ report \in {Pending(err) : err \in FailureValues}
    /\ wizard = WizardIdle

NextReport == ErrorListener

SpecReport == InitReport /\ [][NextReport]_vars

(* ------------------------- the model wizard --------------------------- *)
\* part_003, runWizard (lines 181-251) and its helpers (129-179).  The two
\* functions it imports from models.ts, isTextOnlyModel and modelPricePer1M,
\* are not in the sources; they are written from sections 4.3 and 8 of the
\* specification.  A price per million tokens is counted in tenths of a
\* dollar, a price per token in millionths of a dollar.

\* lines 129-133: the tiers, from min to below max
PRICE_TIERS ==
    {[id |-> "minimal", min |-> 0, max |-> 50],
     [id |-> "basic", min |-> 50, max |-> 100],
     [id |-> "full", min |-> 100, max |-> 200]}

ShortlistSize == 30    \* line 224: ordered.slice(0, 30)

\* a model of the catalog as the wizard reads it
NoArchitecture == [has |-> FALSE, input |-> NoList, output |-> NoList]
Architecture(input, output) == [has |-> TRUE, input |-> input, output |-> output]

NoPricing == [has |-> FALSE, prompt |-> NoString, completion |-> NoString,
              request |-> NoString]
Prices(p, c, r) == [has |-> TRUE, prompt |-> p, completion |-> c, request |-> r]

WizardModel(id, pricing, architecture) ==
    [id |-> id, pricing |-> pricing, architecture |-> architecture]

TextOnly == Architecture(Some(<<"text">>), Some(<<"text">>))
Blended == Prices(Some("0.000001"), Some("0.000002"), NoString)

IdA == <<"a", "/", "x">>
IdB == <<"b", "/", "y">>
IdBare == <<"z">>

WizardModels ==
    {WizardModel(IdA, p, TextOnly) :
        p \in {NoPricing,
               Prices(NoString, NoString, NoString),
               Blended,
               Prices(Some("0"), Some("0"), NoString),
               Prices(Some("0"), Some("0"), Some("0.000001")),
               Prices(Some("0.00001"), Some("0.00001"), NoString),
               Prices(Some("0.00001"), Some("0.000002"), NoString),
               Prices(Some("n/a"), Some("0.000002"), NoString),
               Prices(Some("0.000001"), NoString, NoString),
               Prices(NoString, Some("0"), Some("0"))}}
    \cup
    {WizardModel(IdB, Blended, a) :
        a \in {NoArchitecture,
               TextOnly,
               Architecture(Some(<<"text", "text">>), Some(<<"text">>)),
               Architecture(Some(<<"text", "image">>), Some(<<"text">>)),
               Architecture(Some(<<"text">>), Some(<<"image">>)),
               Architecture(Some(<<>>), Some(<<"text">>)),
               Architecture(NoList, Some(<<"text">>))}}
    \cup
    {WizardModel(IdBare, Blended, TextOnly)}

WizardCatalogs == UNION {[1..n -> WizardModels] : n \in 0..MaxModels}

\* the elements of a list
Elements(list) == {list[i] : i \in 1..Len(list)}

\* isTextOnlyModel of models.ts, from the specification: the input and the
\* output modalities both reduce to {text}; without the metadata, false
isTextOnlyModel(m) ==
    /\ m.architecture.has
    /\ m.architecture.input.has /\ m.architecture.output.has
    /\ Elements(m.architecture.input.v) = {"text"}
    /\ Elements(m.architecture.output.v) = {"text"}

NoPrice == [known |-> FALSE, tenths |-> 0]

\* modelPricePer1M of models.ts, from the specification: (prompt +
\* completion) x 1,000,000 / 2, unknown when either is absent or no number
modelPricePer1M(m) ==
    LET prompt     == asNumber(m.pricing.prompt)
        completion == asNumber(m.pricing.completion)
    IN  IF m.pricing.has /\ prompt.finite /\ completion.finite
        THEN [known |-> TRUE, tenths |-> ((prompt.n + completion.n) * 10) \div 2]
        ELSE NoPrice

\* Number(x) of lines 153-155 on a pricing field, in millionths
NumberOf(x) == asNumber(x)

\* lines 150-158
isFreeModel(model) ==
    IF ~model.pricing.has THEN FALSE
    ELSE LET prompt     == NumberOf(model.pricing.prompt)
             completion == NumberOf(model.pricing.completion)
             request    == IF model.pricing.request.has
                           THEN NumberOf(model.pricing.request)
                           ELSE [finite |-> TRUE, n |-> 0]
         IN  IF ~(prompt.finite /\ completion.finite /\ request.finite)
             THEN FALSE
             ELSE prompt.n = 0 /\ completion.n = 0 /\ request.n = 0

\* variant: a price that is unknown counts as zero
filterByPriceTierUnknownAsZero(models, tier) ==
    LET match == {t \in PRICE_TIERS : t.id = tier}
    IN  IF match = {} THEN models
        ELSE SelectSeq(models, LAMBDA m :
                LET price == modelPricePer1M(m)
                    t == CHOOSE t \in match : TRUE
                IN  price.tenths >= t.min /\ price.tenths < t.max)

\* lines 160-168
filterByPriceTier(models, tier) ==
    LET match == {t \in PRICE_TIERS : t.id = tier}
    IN  IF match = {} THEN models
        ELSE SelectSeq(models, LAMBDA m :
                LET price == modelPricePer1M(m)
                    t == CHOOSE t \in match : TRUE
                IN  IF ~price.known THEN FALSE
                    ELSE price.tenths >= t.min /\ price.tenths < t.max)

\* lines 171-178: the comparator of sortByPrice
comparePrice(a, b) ==
    LET pa == modelPricePer1M(a)
        pb == modelPricePer1M(b)
    IN  IF ~pa.known /\ ~pb.known THEN 0
        ELSE IF ~pa.known THEN 1
        ELSE IF ~pb.known THEN -1
        ELSE pa.tenths - pb.tenths

RECURSIVE insertByPrice(_, _)
insertByPrice(sorted, x) ==
    IF sorted = <<>> THEN <<x>>
    ELSE IF comparePrice(Head(sorted), x) <= 0
         THEN <<Head(sorted)>> \o insertByPrice(Tail(sorted), x)
         ELSE <<x>> \o sorted

\* lines 170-179: [...models].sort(...), which is stable
RECURSIVE sortByPrice(_)
sortByPrice(models) ==
    IF models = <<>> THEN <<>>
    ELSE insertByPrice(sortByPrice(SubSeq(models, 1, Len(models) - 1)),
                       models[Len(models)])

\* lines 145-148
parseModelProvider(modelId) ==
    LET slashes == {i \in 1..Len(modelId) : modelId[i] = "/"}
    IN  IF slashes = {} THEN <<"u", "n", "k", "n", "o", "w", "n">>
        ELSE SubSeq(modelId, 1, (CHOOSE i \in slashes : \A j \in slashes : i <= j) - 1)

\* variant: the text-only filter is left out
textModelsUnfiltered(allModels) == allModels

\* line 183
textModelsOf(allModels) == SelectSeq(allModels, isTextOnlyModel)

\* lines 223-237: the choices offered, cheapest first, with their prices
choicesOf(filtered) ==
    LET ordered == sortByPrice(filtered)
        shortlist == SubSeq(ordered, 1,
                            IF Len(ordered) < ShortlistSize
                            THEN Len(ordered) ELSE ShortlistSize)
    IN  [i \in 1..Len(shortlist) |->
            [value |-> shortlist[i].id, price |-> modelPricePer1M(shortlist[i])]]

\* lines 219-240: with the filtered models, fail or offer the choices
Offer(filtered) ==
    IF filtered = <<>>
    THEN wizard' = [wizard EXCEPT !.pc = "failed", !.filtered = filtered]
    ELSE wizard' = [wizard EXCEPT !.pc = "model", !.filtered = filtered,
                                  !.choices = choicesOf(filtered)]

WizardFrame == UNCHANGED <<messages, call, events, session, cli, pick, report>>

\* lines 181-182: runWizard is called and awaits the catalog
WizardStarts ==
    /\ wizard.pc = "idle"
    /\ wizard' = [wizard EXCEPT !.pc = "fetching"]
    /\ WizardFrame

\* lines 182-191: the catalog arrives, the pricing type is asked for
WizardFetched(allModels) ==
    /\ wizard.pc = "fetching"
    /\ wizard' = [wizard EXCEPT !.pc = "pricing", !.allModels = allModels,
                                !.textModels = textModelsOf(allModels)]
    /\ WizardFrame

\* line 182: fetchModels rejects, and with it runWizard and main
WizardFetchRejects ==
    /\ wizard.pc = "fetching"
    /\ wizard' = [wizard EXCEPT !.pc = "failed"]
    /\ WizardFrame

\* lines 195-196, 219-240: 'Free models only'
WizardChoosesFree ==
    /\ wizard.pc = "pricing"
    /\ Offer(SelectSeq(wizard.textModels, isFreeModel))
    /\ WizardFrame

\* lines 197-201: 'Paid models', the tier is asked for
WizardChoosesPaid ==
    /\ wizard.pc = "pricing"
    /\ wizard' = [wizard EXCEPT !.pc = "tier"]
    /\ WizardFrame

\* lines 203-212: the tier is chosen, the provider is asked for
WizardChoosesTier(tier) ==
    /\ wizard.pc = "tier"
    /\ LET filtered == filterByPriceTier(wizard.textModels, tier)
       IN  wizard' = [wizard EXCEPT
                        !.pc = "provider", !.filtered = filtered,
                        !.providers = {parseModelProvider(m.id) :
                                         m \in Elements(filtered)}]
    /\ WizardFrame

\* lines 214-240: the provider is chosen or skipped
WizardChoosesProvider(skip, providerChoice) ==
    /\ wizard.pc = "provider"
    /\ skip \/ providerChoice \in wizard.providers
    /\ Offer(IF skip THEN wizard.filtered
             ELSE SelectSeq(wizard.filtered, LAMBDA m :
                     parseModelProvider(m.id) = providerChoice))
    /\ WizardFrame

\* lines 226-250: a model of the list is chosen
WizardChoosesModel(i) ==
    /\ wizard.pc = "model"
    /\ i \in 1..Len(wizard.choices)
    /\ wizard' = [wizard EXCEPT !.pc = "done", !.model = wizard.choices[i].value]
    /\ WizardFrame

\* lines 242-248: 'Enter model id manually', and the id typed
WizardEntersModel(manual) ==
    /\ wizard.pc = "model"
    /\ wizard' = [wizard EXCEPT !.pc = "done", !.model = manual]
    /\ WizardFrame

TierIds == {t.id : t \in PRICE_TIERS}
ProviderNames == {parseModelProvider(id) : id \in {IdA, IdB, IdBare}}

NextWizard ==
    \/ WizardStarts
    \/ \E allModels \in WizardCatalogs : WizardFetched(allModels)
    \/ WizardFetchRejects
    \/ WizardChoosesFree
    \/ WizardChoosesPaid
    \/ \E tier \in TierIds : WizardChoosesTier(tier)
    \/ \E p \in ProviderNames : WizardChoosesProvider(FALSE, p)
    \/ WizardChoosesProvider(TRUE, <<>>)
    \/ \E i \in 1..MaxModels : WizardChoosesModel(i)
    \/ WizardEntersModel(<<"m">>)

SpecWizard == Init /\ [][NextWizard]_vars

TypeOK ==
    /\ Len(messages) <= MaxHist
    /\ \A c \in Slots : call[c].pc \in {"idle", "stream", "getText", "syncGetText", "done"}

(* ------------------------- reading the log ---------------------------- *)
EventsOf(log, c, type) ==
    SelectSeq(log, LAMBDA e : e.call = c /\ e.type = type)

UserMessage(c) == Message("user", call[c].content)


\* the step in which a call enters record c
Starts(c) ==
    /\ FreeSlot(c)
    /\ call'[c].pc # "idle"
    /\ Len(messages') = Len(messages) + 1
    /\ messages'[Len(messages')].role = "user"

\* the step in which call c handles its next fragment, and that fragment
Consumes(c) == call[c].pc = "stream" /\ call'[c].nfrag = call[c].nfrag + 1
Fragment(log, c, k) ==
    (CHOOSE e \in {log[j] : j \in 1..Len(log)} :
        e.type = "item:update" /\ e.call = c /\ e.frag = k).item

\* the text a call has stored for message id i before a step
Stored(c, i) == IF call[c].seen[i].has THEN call[c].seen[i].text ELSE <<>>

(* ------------------------------ claims -------------------------------- *)
\* C1: when a send or sendSync fails after its user message was appended
\* (the provider call throws, the stream fails, the arguments of a tool call
\* do not parse, or the text accessor fails), the history is the history
\* before the call followed by that user message and nothing else.
C1_FailedCallKeepsOnlyUserMessage ==
    \A c \in Slots :
        Failed(c) => messages = Append(call[c].before, UserMessage(c))

\* a send that failed in mid-stream, after text had been streamed, in a
\* session that already had history
C1_Witness ==
    \E c \in Slots :
        /\ Failed(c) /\ call[c].kind = "send"
        /\ call[c].nfrag > 0 /\ call[c].fullText # <<>>
        /\ call[c].before # <<>>

\* C2: within one send, for the fragments of one message id whose texts are
\* strictly prefix-growing, the deltas emitted for them concatenate to the
\* last text of the id, and the accumulated value a stream:delta carries is
\* the concatenation of the deltas emitted so far.
C2_DeltasRebuildText ==
    \A c \in Slots : \A i \in MsgIds :
        LET s == call[c].seen[i]
            k == call[c].nfrag
        IN  (call[c].pc = "stream" /\ s.has /\ s.growing) =>
              /\ s.cat = s.text
              /\ (k > 0 /\ Fragment(events, c, k).type = "message"
                        /\ Fragment(events, c, k).id = i) =>
                    \A j \in 1..Len(events) :
                        (events[j].type = "stream:delta" /\ events[j].call = c)
                            => events[j].text = s.cat

\* C3: a message fragment whose text is identical to the last text seen for
\* its id emits no stream:delta and leaves the accumulated text unchanged.
C3_DuplicateIsNoOp ==
    [][\A c \in Slots :
          Consumes(c) =>
            LET it == Fragment(events', c, call'[c].nfrag)
            IN  (/\ it.type = "message" /\ it.hasText
                 /\ call[c].seen[it.id].has
                 /\ call[c].seen[it.id].text = it.text)
                => /\ EventsOf(events', c, "stream:delta") = <<>>
                   /\ call'[c].fullText = call[c].fullText]_vars

\* C4: the provider call of every send carries the whole history in order,
\* ending with the user message just appended; the call that follows a
\* failed one carries the failed call's input followed by the new user
\* message.
C4_InputIsWholeHistory ==
    [][\A c \in Slots :
          Starts(c) =>
            LET user == Message("user", call'[c].content)
            IN  /\ call'[c].input = Append(messages, user)
                /\ call'[c].input = messages'
                /\ Failed(c) =>
                      /\ call[c].input # <<>>
                      /\ call[c].input[Len(call[c].input)] = UserMessage(c)
                      /\ call'[c].input = Append(call[c].input, user)]_vars

\* a call in flight whose input ends with the pending user message of the
\* failed turn followed by the new user message
C4_Witness ==
    \E c \in Slots :
        LET in == call[c].input
            n  == Len(in)
        IN  /\ call[c].pc = "stream"
            /\ n >= 2
            /\ in[n - 1].role = "user" /\ in[n].role = "user"
            /\ in[n - 1].content # in[n].content

\* C5: every failure inside a call is emitted as exactly one error event and
\* thrown to the caller as an Error (a value that is not an Error is wrapped,
\* keeping its text); a call without a failure emits no error event and
\* returns.
C5_FailureIsOneErrorEventAndThrown ==
    \A c \in Slots :
        call[c].pc = "done" =>
            LET errs == EventsOf(events, c, "error")
                out  == call[c].outcome
            IN  IF call[c].fault # NoError
                THEN /\ out.status = "thrown"
                     /\ out.error.isError
                     /\ out.error.msg = call[c].fault.msg
                     /\ Len(errs) = 1
                     /\ errs[1].error = out.error
                ELSE /\ out.status = "returned"
                     /\ errs = <<>>

\* a send that failed with a value that is not an Error
C5_Witness ==
    \E c \in Slots :
        /\ Failed(c) /\ call[c].kind = "send"
        /\ ~call[c].fault.isError
        /\ call[c].nfrag > 0

\* C6: a successful send appends exactly two messages, the user message and
\* then one assistant message whose content is the text returned, which is
\* also the text of the one stream:end and the one message:assistant event.
C6_SuccessAppendsUserThenAssistant ==
    \A c \in Slots :
        (Succeeded(c) /\ call[c].kind = "send") =>
            LET text == call[c].outcome.text
                ends == EventsOf(events, c, "stream:end")
                asst == EventsOf(events, c, "message:assistant")
            IN  /\ call[c].outcome.status = "returned"
                /\ messages = call[c].before \o
                                <<UserMessage(c), Message("assistant", text)>>
                /\ Len(ends) = 1 /\ ends[1].text = text
                /\ Len(asst) = 1 /\ asst[1].text = text

\* a successful send in a session that already had history, once with
\* streamed text and once with the text of the accessor
C6_Witness ==
    \E c \in Slots :
        /\ Succeeded(c) /\ call[c].kind = "send"
        /\ call[c].before # <<>>
        /\ call[c].outcome.text # <<>>
        /\ call[c].accessor

\* C7 as claimed: the accessor is consulted exactly when no fragment of the
\* stream carried text; when a fragment did, the text returned is the
\* accumulated text.
C7_AccessorOnlyWithoutAnyText ==
    \A c \in Slots :
        call[c].kind = "send" =>
            /\ call[c].pc = "getText" => ~call[c].everText
            /\ Succeeded(c) =>
                  /\ call[c].accessor <=> ~call[c].everText
                  /\ call[c].everText => call[c].outcome.text = call[c].streamed

\* C7 as amended: the accessor is consulted exactly when the text accumulated
\* at the end of the stream is empty, also when earlier text was replaced by
\* an empty one; the text returned is then the accessor's, and otherwise the
\* accumulated text.
C7_AccessorIffAccumulatedEmpty ==
    \A c \in Slots :
        call[c].kind = "send" =>
            /\ call[c].pc = "getText" =>
                  call[c].accessor /\ call[c].fullText = <<>>
            /\ Succeeded(c) =>
                  /\ call[c].accessor <=> call[c].streamed = <<>>
                  /\ call[c].accessor => call[c].outcome.text = call[c].accessed
                  /\ ~call[c].accessor => call[c].outcome.text = call[c].streamed

\* a send that returned the accessor's text although a fragment had carried
\* text
C7_Witness ==
    \E c \in Slots :
        /\ Succeeded(c) /\ call[c].kind = "send"
        /\ call[c].accessor /\ call[c].everText
        /\ call[c].outcome.text # <<>>

\* C8: the delta emitted for a message fragment is the new suffix relative
\* to the last text stored for the fragment's own id, whatever fragments of
\* other ids came in between.
C8_DeltaIsSuffixForOwnId ==
    [][\A c \in Slots :
          Consumes(c) =>
            LET it == Fragment(events', c, call'[c].nfrag)
                ds == EventsOf(events', c, "stream:delta")
            IN  (/\ it.type = "message" /\ it.hasText
                 /\ IsPrefix(Stored(c, it.id), it.text))
                => \A j \in 1..Len(ds) :
                      Stored(c, it.id) \o ds[j].delta = it.text]_vars

\* C9: a message fragment whose text does not extend the text stored for its
\* id replaces it: the accumulated text becomes the new text, one
\* stream:delta carries the whole new text, and the call goes on.  Stated
\* for the id whose text the call holds, where the stored text is not in
\* question.
C9_RewriteEmitsWholeText ==
    [][\A c \in Slots :
          Consumes(c) =>
            LET it == Fragment(events', c, call'[c].nfrag)
                ds == EventsOf(events', c, "stream:delta")
            IN  (/\ it.type = "message" /\ it.hasText
                 /\ call[c].seen[it.id].has
                 /\ call[c].seen[it.id].text = call[c].fullText
                 /\ ~IsPrefix(call[c].fullText, it.text))
                => /\ call'[c].fullText = it.text
                   /\ call'[c].pc = "stream"
                   /\ Len(ds) = 1
                   /\ ds[1].delta = it.text /\ ds[1].text = it.text]_vars

\* C10: a completed tool call whose arguments do not parse does not abort
\* the stream: the call stays in the stream loop and has not failed.
C10_ParseFailureKeepsStreaming ==
    [][\A c \in Slots :
          Consumes(c) =>
            LET it == Fragment(events', c, call'[c].nfrag)
            IN  (/\ it.type = "function_call" /\ it.status = "completed"
                 /\ ~ParseArgs(it.arguments).ok)
                => /\ call'[c].pc = "stream"
                   /\ call'[c].fault = NoError]_vars

\* the per-fragment events of call c in a log, in the order of emission
PerFragmentOf(log, c) ==
    SelectSeq(log, LAMBDA e : e.call = c /\ e.type \in PerFragmentTypes)

\* C11: within one send the per-fragment events come out in the order the
\* fragments arrive: the step that handles fragment k emits events caused by
\* fragment k only, after every event emitted before, all events emitted for
\* earlier fragments belong to fragments before k, and no step outside the
\* loop emits a per-fragment event.
C11_EventsFollowFragmentOrder ==
    [][\A c \in Slots :
          LET old  == PerFragmentOf(events, c)
              new  == PerFragmentOf(events', c)
              kept == Len(Keep(events))
          IN  IF Consumes(c)
              THEN LET k == call'[c].nfrag
                   IN  /\ new # <<>>
                       /\ \A j \in 1..Len(new) : new[j].frag = k
                       /\ \A j \in 1..Len(old) : old[j].frag < k
                       /\ Len(events') >= kept
                       /\ SubSeq(events', 1, kept) = Keep(events)
                       /\ PerFragmentOf(SubSeq(events', kept + 1, Len(events')), c)
                             = new
              ELSE \A j \in 1..Len(new) :
                      \E i \in 1..Len(old) : old[i] = new[j]]_vars

\* a send that has handled a third fragment, which caused two events
C11_Witness ==
    \E c \in Slots :
        /\ call[c].pc = "stream" /\ call[c].nfrag = 3
        /\ Len(PerFragmentOf(events, c)) = 2
        /\ PerFragmentOf(events, c)[2].type = "tool:call"

\* C12: a tool-call fragment emits one tool:call event exactly when its status
\* is completed, carrying its name and its parsed arguments; a tool-result
\* fragment emits one tool:result event carrying its callId and output; and
\* handling either changes neither the accumulated text nor the history, and
\* the call goes on.
C12_ToolEventsMirrorFragments ==
    [][\A c \in Slots :
          Consumes(c) =>
            LET it == Fragment(events', c, call'[c].nfrag)
                tc == EventsOf(events', c, "tool:call")
                tr == EventsOf(events', c, "tool:result")
            IN  /\ it.type = "function_call" =>
                      /\ Len(tc) = (IF it.status = "completed" THEN 1 ELSE 0)
                      /\ \A j \in 1..Len(tc) :
                            /\ tc[j].name = it.name
                            /\ ParseArgs(it.arguments).ok
                            /\ tc[j].info = ParseArgs(it.arguments).value
                      /\ tr = <<>>
                /\ it.type = "function_call_output" =>
                      /\ Len(tr) = 1
                      /\ tr[1].name = it.callId /\ tr[1].info = it.output
                      /\ tc = <<>>
                /\ it.type \in {"function_call", "function_call_output"} =>
                      /\ call'[c].fullText = call[c].fullText
                      /\ call'[c].pc = "stream"
                      /\ messages' = messages]_vars

\* C13: a reasoning fragment leaves the accumulated answer text unchanged and
\* emits no stream:delta; the accumulated text changes only in a step that
\* handles a message fragment, to that fragment's text.
C13_ReasoningLeavesAnswerAlone ==
    [][\A c \in Slots :
          Consumes(c) =>
            LET it == Fragment(events', c, call'[c].nfrag)
            IN  /\ it.type = "reasoning" =>
                      /\ call'[c].fullText = call[c].fullText
                      /\ EventsOf(events', c, "stream:delta") = <<>>
                      /\ messages' = messages
                /\ call'[c].fullText # call[c].fullText =>
                      /\ it.type = "message" /\ it.hasText
                      /\ call'[c].fullText = it.text]_vars

\* a send that returned the streamed answer although the last fragment it
\* handled was reasoning text different from the answer
C13_Witness ==
    \E c \in Slots :
        /\ Succeeded(c) /\ call[c].kind = "send" /\ call[c].nfrag >= 2
        /\ LET it == Fragment(events, c, call[c].nfrag)
           IN  /\ it.type = "reasoning" /\ it.hasText
               /\ it.text # call[c].outcome.text
        /\ ~call[c].accessor
        /\ messages[Len(messages)] = Message("assistant", call[c].outcome.text)

\* C14: every send and sendSync invocation makes exactly one provider call,
\* whatever its stream contains, and hands maxSteps to it as the step budget.
C14_OneProviderCallPerSend ==
    \A c \in Slots :
        call[c].pc # "idle" =>
            /\ call[c].modelCalls = 1
            /\ call[c].stopWhen = DefaultMaxSteps

\* a send that finished after a tool result was the last of several
\* fragments
C14_Witness ==
    \E c \in Slots :
        /\ call[c].pc = "done" /\ call[c].kind = "send"
        /\ call[c].nfrag >= 2
        /\ \E j \in 1..Len(events) :
              /\ events[j].type = "tool:result" /\ events[j].call = c
              /\ events[j].frag = call[c].nfrag

\* the events sendSync is said to skip
StreamingTypes ==
    PerFragmentTypes \cup {"stream:start", "stream:end"}

\* C15: sendSync changes the history as send does (the user message on
\* entry, one assistant message with the final text on success, the user
\* message alone on failure) and emits none of the streaming events; and a
\* send ends with the history a sendSync ends with on the same provider
\* response: it fails only when the provider call, the stream or the text
\* accessor fails.
C15_SendSyncMatchesSend ==
    \A c \in Slots :
        call[c].pc = "done" =>
            /\ messages = Append(call[c].before, UserMessage(c)) \o
                  (IF Failed(c) THEN <<>>
                   ELSE <<Message("assistant", call[c].outcome.text)>>)
            /\ call[c].kind = "sendSync" =>
                  \A j \in 1..Len(events) :
                      events[j].call = c => events[j].type \notin StreamingTypes
            /\ Failed(c) => call[c].fault \in Failures

\* C16: across send, sendSync, setInstructions, addTool, getMessages and
\* clearHistory, a step leaves the history as it is, appends one message at
\* its end, or is clearHistory; and a step that hands out or changes the
\* list returned by getMessages leaves the history as it is.
C16_HistoryIsAppendOnly ==
    [][/\ \/ messages' = messages
          \/ /\ Len(messages') = Len(messages) + 1
             /\ SubSeq(messages', 1, Len(messages)) = messages
          \/ ClearHistory
       /\ returned' # returned => messages' = messages]_vars

\* the caller has popped the last element off the list it was handed, and the
\* history still holds it, in a session whose instructions and tools were
\* changed
C16_Witness ==
    /\ returned.changed
    /\ Len(messages) >= 2
    /\ returned.list = SubSeq(messages, 1, Len(messages) - 1)
    /\ config.instructions # DefaultConfig.instructions
    /\ config.tools # <<>>

\* C17: sends are not serialized by the agent.  A send that starts while
\* another is in flight finds the other's user message in the history, at
\* the place where it was appended, and hands the whole history with its own
\* user message to the provider; the other call has appended no reply, and
\* the history then holds both user messages.
C17_OverlappingSendsInterleave ==
    [][\A c, d \in Slots :
          (c # d /\ Starts(c) /\ InFlight(d)) =>
            LET pos  == Len(call[d].before) + 1
                user == Message("user", call'[c].content)
            IN  /\ Len(messages) >= pos
                /\ call'[c].input = Append(messages, user)
                /\ call'[c].input[pos] = UserMessage(d)
                /\ call[d].outcome.status = "none"
                /\ messages'[pos] = UserMessage(d)
                /\ messages'[Len(messages')] = user]_vars

\* two sends that overlapped and both succeeded: the second was called with
\* both user messages and no reply, and the history holds the two user
\* messages before the two assistant messages
C17_Witness ==
    \E c, d \in Slots :
        /\ c # d /\ Succeeded(c) /\ Succeeded(d)
        /\ call[d].before = Append(call[c].before, UserMessage(c))
        /\ call[d].input = call[c].before \o <<UserMessage(c), UserMessage(d)>>
        /\ Len(messages) = Len(call[d].input) + 2
        /\ SubSeq(messages, 1, Len(call[d].input)) = call[d].input
        /\ messages[Len(messages) - 1].role = "assistant"
        /\ messages[Len(messages)].role = "assistant"

\* C18: the interactive process goes from a send, resolved or rejected, to
\* the next prompt; it ends only from startup, and it never sits without a
\* pending prompt.
C18_CliPromptsAfterFailure ==
    [][/\ (cli.pc = "busy" /\ cli'.pc # "busy") =>
              /\ cli'.pc = "prompt"
              /\ cli'.prompts = cli.prompts + 1
       /\ (cli'.pc = "exited" /\ cli.pc # "exited") => cli.pc = "starting"
       /\ cli'.pc # "stalled"]_vars

\* the models of the fetched catalog that carry the id returned
Chosen == {i \in 1..Len(pick.models) : pick.models[i].id = pick.result}

PriceFields == {"prompt", "completion", "request"}
NumericPrices == {"0", "0.000001", "0.000002", "0.00001"}

\* C19: once the catalog is fetched pickFreeModelId returns; when no model
\* of the catalog survives the filter, the empty catalog included, it
\* returns 'openrouter/auto'.
C19_NoSurvivorGivesFallback ==
    pick.fetched =>
        /\ pick.pc = "done"
        /\ (\A i \in 1..Len(pick.models) :
               ~(/\ isFree(pick.models[i])
                 /\ ctxOk(pick.models[i], pick.opts)
                 /\ moderationOk(pick.models[i], pick.opts)))
              => pick.result = FallbackId

\* a catalog of two models, neither of which survives
C19_Witness ==
    /\ pick.pc = "done"
    /\ Len(pick.models) = 2
    /\ free(pick.models, pick.opts) = <<>>
    /\ pick.result = FallbackId

\* the filters other than the price, read off the fields of a model
ContextAndModerationPass(m) ==
    /\ (IF m.context_length.has THEN m.context_length.v ELSE 0)
          >= (IF pick.opts.minContext.has THEN pick.opts.minContext.v ELSE 0)
    /\ (pick.opts.allowModerated.has /\ ~pick.opts.allowModerated.v)
          => ~(m.is_moderated.has /\ m.is_moderated.v)

\* C20 as claimed: the id returned is the fallback, and then no model
\* survives, or the id of a catalog model of which every price that is
\* present is zero, whose context length is at least minContext and which
\* is not moderated when moderated models are not allowed.
C20_ResultPassesEveryFilter ==
    pick.pc = "done" =>
        \/ pick.result = FallbackId /\ free(pick.models, pick.opts) = <<>>
        \/ \E i \in Chosen :
              LET m == pick.models[i]
              IN  /\ \A f \in PriceFields :
                        m.pricing[f].has => m.pricing[f].v = "0"
                  /\ ContextAndModerationPass(m)

\* C20 as amended: every price that is present and a number is zero; a price
\* that is absent or not a number passes.
C20_ResultPassesEveryNumericFilter ==
    pick.pc = "done" =>
        \/ pick.result = FallbackId /\ free(pick.models, pick.opts) = <<>>
        \/ \E i \in Chosen :
              LET m == pick.models[i]
              IN  /\ \A f \in PriceFields :
                        (m.pricing[f].has /\ m.pricing[f].v \in NumericPrices)
                            => m.pricing[f].v = "0"
                  /\ ContextAndModerationPass(m)

\* the model returned is the only one of two that survives, with a prompt
\* price that is not a number, under a minimum context and with moderated
\* models excluded
C20_Witness ==
    /\ pick.pc = "done"
    /\ Len(pick.models) = 2
    /\ Len(free(pick.models, pick.opts)) = 1
    /\ pick.opts.minContext.has /\ pick.opts.allowModerated.has
    /\ \A i \in Chosen :
          pick.models[i].pricing.prompt.has
            /\ pick.models[i].pricing.prompt.v \notin NumericPrices
    /\ Chosen # {}

\* the models that pass the filter, in catalog order, and the needles in use
Survivors == free(pick.models, pick.opts)
Needles == NeedlesOf(pick.opts)

\* id contains the needle, letter case aside
Contains(id, needle) ==
    \E off \in 0..(Len(id) - Len(needle)) :
        \A k \in 1..Len(needle) :
            toLowerCase(<<id[off + k]>>) = toLowerCase(<<needle[k]>>)

Hits(needle) == {i \in 1..Len(Survivors) : Contains(Survivors[i].id, needle)}

\* C21: when preferred substrings are given and a model survives, the
\* substrings are tried in list order and not merged: for the first
\* substring that the id of some survivor contains, the result is the id of
\* the first such survivor in catalog order, whatever its context length; a
\* later substring counts only when no survivor matches an earlier one.
C21_PreferredSubstringsInOrder ==
    (pick.pc = "done" /\ pick.opts.preferIdIncludes.has /\ Survivors # <<>>) =>
        \A j \in 1..Len(Needles) :
            (/\ Hits(Needles[j]) # {}
             /\ \A e \in 1..(j - 1) : Hits(Needles[e]) = {})
            => \E i \in Hits(Needles[j]) :
                  /\ \A h \in Hits(Needles[j]) : i <= h
                  /\ pick.result = Survivors[i].id

\* two survivors: the first in the catalog matches only the second
\* substring, the second matches the first substring and is returned,
\* although the first is the nearer to the target context
C21_Witness ==
    /\ pick.pc = "done" /\ pick.opts.preferIdIncludes.has
    /\ pick.opts.targetContext.has
    /\ Len(Survivors) = 2 /\ Len(Needles) = 2
    /\ Hits(Needles[1]) = {2} /\ Hits(Needles[2]) = {1}
    /\ pick.result = Survivors[2].id
    /\ Abs(ContextOf(Survivors[1]) - pick.opts.targetContext.v)
          < Abs(ContextOf(Survivors[2]) - pick.opts.targetContext.v)

\* the distance of a survivor from the target context
Distance(m) == Abs(ContextOf(m) - pick.opts.targetContext.v)

\* no survivor ranks before m
RanksFirst(m) ==
    \A i \in 1..Len(Survivors) :
        LET o == Survivors[i]
        IN  IF pick.opts.targetContext.has
            THEN \/ Distance(m) < Distance(o)
                 \/ Distance(m) = Distance(o) /\ ContextOf(m) >= ContextOf(o)
            ELSE ContextOf(m) >= ContextOf(o)

\* C22: when no survivor matches a preferred substring and a model
\* survives, the result is the id of a survivor nearest to targetContext,
\* the larger context length at equal distance, when a target is given, and
\* of a survivor of the largest context length when none is given.
C22_RankedByDistanceThenContext ==
    (/\ pick.pc = "done" /\ Survivors # <<>>
     /\ \A j \in 1..Len(Needles) : Hits(Needles[j]) = {})
    => \E i \in 1..Len(Survivors) :
          pick.result = Survivors[i].id /\ RanksFirst(Survivors[i])

\* two survivors at the same distance on both sides of the target, the
\* smaller first in the catalog: the larger is returned
C22_Witness ==
    /\ pick.pc = "done" /\ pick.opts.targetContext.has
    /\ Len(Survivors) = 2
    /\ \A j \in 1..Len(Needles) : Hits(Needles[j]) = {}
    /\ Distance(Survivors[1]) = Distance(Survivors[2])
    /\ ContextOf(Survivors[1]) < ContextOf(Survivors[2])
    /\ Survivors[1].id # Survivors[2].id
    /\ pick.result = Survivors[2].id

\* the lifecycle events of call c in emission order, by name
LifecycleTypes ==
    {"message:user", "thinking:start", "stream:start", "stream:end",
     "message:assistant", "error", "thinking:end"}

LifecycleOf(log, c) ==
    LET own == SelectSeq(log, LAMBDA e : e.call = c /\ e.type \in LifecycleTypes)
    IN  [i \in 1..Len(own) |-> own[i].type]

Opening == <<"message:user", "thinking:start">>

\* C27: the lifecycle events of a send are well bracketed: message:user,
\* thinking:start, then stream:start once the provider call is issued and
\* before any per-fragment event, then either stream:end with
\* message:assistant or error, and last thinking:end, once; a failed send
\* has no stream:end, a successful one no error, and thinking:end follows
\* the error.
C27_LifecycleWellBracketed ==
    \A c \in Slots :
        call[c].kind = "send" =>
            /\ InFlight(c) =>
                  LifecycleOf(events, c) = Opening \o <<"stream:start">>
            /\ Succeeded(c) =>
                  LifecycleOf(events, c) =
                      Opening \o <<"stream:start", "stream:end",
                                   "message:assistant", "thinking:end">>
            /\ Failed(c) =>
                  \/ LifecycleOf(events, c) = Opening \o <<"error", "thinking:end">>
                  \/ LifecycleOf(events, c) =
                        Opening \o <<"stream:start", "error", "thinking:end">>
            /\ \A i \in 1..Len(events) :
                  (events[i].call = c /\ events[i].type \in PerFragmentTypes) =>
                      /\ \E j \in 1..(i - 1) :
                            events[j].call = c /\ events[j].type = "stream:start"
                      /\ \A j \in 1..(i - 1) :
                            events[j].call = c =>
                                events[j].type \notin
                                    {"stream:end", "message:assistant", "error",
                                     "thinking:end"}

\* a send that failed in mid-stream on a fragment whose events are in the log
C27_Witness ==
    \E c \in Slots :
        /\ Failed(c) /\ call[c].kind = "send" /\ call[c].nfrag > 1
        /\ \E i \in 1..Len(events) :
              events[i].call = c /\ events[i].type \in PerFragmentTypes
        /\ LifecycleOf(events, c) =
              Opening \o <<"stream:start", "error", "thinking:end">>

\* the length of the history once the assistant message of call c is in it
AnsweredLength(c) == Len(call[c].before) + 2

\* C28 as claimed: on a successful send the assistant message is in the
\* history when stream:end and when message:assistant are emitted.
C28_AppendedBeforeBothEvents ==
    \A c \in Slots :
        (Succeeded(c) /\ call[c].kind = "send") =>
            \A i \in 1..Len(events) :
                (events[i].call = c
                   /\ events[i].type \in {"stream:end", "message:assistant"})
                => events[i].hlen = AnsweredLength(c)

\* C28 as amended: the assistant message is in the history when
\* message:assistant is emitted, and not yet when stream:end is emitted,
\* which comes first and carries the text.
C28_AppendedBeforeAssistantEvent ==
    \A c \in Slots :
        (Succeeded(c) /\ call[c].kind = "send") =>
            /\ Len(EventsOf(events, c, "stream:end")) = 1
            /\ Len(EventsOf(events, c, "message:assistant")) = 1
            /\ EventsOf(events, c, "message:assistant")[1].hlen = AnsweredLength(c)
            /\ EventsOf(events, c, "stream:end")[1].hlen = AnsweredLength(c) - 1
            /\ EventsOf(events, c, "stream:end")[1].text
                  = messages[AnsweredLength(c)].content
            /\ messages[AnsweredLength(c)].role = "assistant"

\* a send that succeeded with streamed text in a session with history
C28_Witness ==
    \E c \in Slots :
        /\ Succeeded(c) /\ call[c].kind = "send"
        /\ call[c].before # <<>> /\ call[c].streamed # <<>>
        /\ EventsOf(events, c, "message:assistant") # <<>>

\* the latest fragment of call c, when its item:update is in the log
LatestFragments(c) ==
    {i \in 1..Len(events) :
        /\ events[i].type = "item:update" /\ events[i].call = c
        /\ events[i].frag = call[c].nfrag}

ReasoningUpdates(c, k) ==
    SelectSeq(events, LAMBDA e :
        e.type = "reasoning:update" /\ e.call = c /\ e.frag = k)

\* the latest fragment of call c is a reasoning fragment with text
ReasoningLatest(c, i) ==
    /\ events[i].item.type = "reasoning" /\ events[i].item.hasText
    /\ call[c].reasoned[events[i].item.id].has

\* C29 as claimed: a reasoning fragment whose text is the last reasoning
\* text seen for its id emits no reasoning:update.
C29_RepeatedReasoningIsSilent ==
    \A c \in Slots : \A i \in LatestFragments(c) :
        (ReasoningLatest(c, i) /\ call[c].reasoned[events[i].item.id].again)
        => ReasoningUpdates(c, events[i].frag) = <<>>

\* C29 as amended: every reasoning fragment that carries text emits one
\* reasoning:update with that text, the same text as before or not, and
\* one without text emits none.
C29_EveryReasoningTextIsEmitted ==
    \A c \in Slots : \A i \in LatestFragments(c) :
        events[i].item.type = "reasoning" =>
            IF events[i].item.hasText
            THEN /\ Len(ReasoningUpdates(c, events[i].frag)) = 1
                 /\ ReasoningUpdates(c, events[i].frag)[1].text = events[i].item.text
            ELSE ReasoningUpdates(c, events[i].frag) = <<>>

\* the latest fragment repeated the reasoning text of an earlier one and was
\* announced again
C29_Witness ==
    \E c \in Slots : \E i \in LatestFragments(c) :
        /\ ReasoningLatest(c, i)
        /\ call[c].reasoned[events[i].item.id].again
        /\ Len(ReasoningUpdates(c, events[i].frag)) = 1

\* the string-typed fields of the failure value reported, in the order of
\* priority, and the first of them
StringFields ==
    SelectSeq(<<report.err.body, report.err.message, report.err.nested>>,
              LAMBDA f : f.type = "string")

FirstString == StringFields[1].str

\* str is the JSON text of object d, or the string literal of that text,
\* with or without whitespace around it
Stands(str, d) ==
    \/ trim(str) = JSONstringify(d)
    \/ trim(str) = Quoted(JSONstringify(d))

\* str has the shape that is parsed, and does not stand for any object
ParsingFails(str) ==
    /\ \/ startsWith(trim(str), <<"{">>) /\ endsWith(trim(str), <<"}">>)
       \/ startsWith(trim(str), <<"\"", "{">>) /\ endsWith(trim(str), <<"}", "\"">>)
    /\ \A d \in Docs : ~Stands(str, d)

WholeValueCoercions == {"JSON.stringify(e)", "String(err)"}

\* C23 as claimed: the normalizer returns a summary for every failure value
\* and does not throw; when none of body, message and nested message is a
\* string, the summary is a coercion of the whole value; when the first
\* string has the shape of JSON and parsing it fails, at the outer string
\* literal or at the object, the summary is that string as it came.
C23_NeverThrowsWholeValueFallback ==
    report.has =>
        /\ ~report.out.threw
        /\ StringFields = <<>> => report.out.kind \in WholeValueCoercions
        /\ (StringFields # <<>> /\ ParsingFails(FirstString)) =>
              report.out = Out("raw", FirstString, <<>>, 0)

\* C23 as amended: with no string among the three, a message that is
\* truthy is coerced to a string and returned, and only otherwise the whole
\* value is coerced.
C23_NeverThrowsMessageThenWholeValue ==
    report.has =>
        /\ ~report.out.threw
        /\ StringFields = <<>> =>
              IF Truthy(report.err.message)
              THEN report.out = Out("String(e.message)", <<>>, <<>>,
                                    report.err.message.num)
              ELSE report.out.kind \in WholeValueCoercions
        /\ (StringFields # <<>> /\ ParsingFails(FirstString)) =>
              report.out = Out("raw", FirstString, <<>>, 0)

\* a string literal that parses to a text that is no JSON, with a space in
\* front: the second parse fails and the string comes back untrimmed
C23_Witness ==
    /\ report.has
    /\ StringFields # <<>> /\ ParsingFails(FirstString)
    /\ startsWith(trim(FirstString), <<"\"">>)
    /\ JSONparse(FirstString).ok
    /\ trim(FirstString) # FirstString
    /\ report.out.text = FirstString

\* the entries the summary lists as available, and the counts it shows
Listed ==
    LET lines == SelectSeq(report.out.lines,
                           LAMBDA l : l.kind = "available_providers")
    IN  IF lines = <<>> THEN <<>> ELSE lines[1].items

OverflowShown ==
    {l.more.v : l \in {report.out.lines[i] : i \in
        {j \in 1..Len(report.out.lines) :
            /\ report.out.lines[j].kind = "available_providers"
            /\ report.out.lines[j].more.has}}}

\* C24: for an error string, doubly JSON-quoted or not, with an
\* error.message and n entries in error.metadata.available_providers, the
\* summary lists the first min(n, 12) entries in order, and it shows an
\* overflow count, n - 12, exactly when n > 12.
C24_AvailableProvidersTruncated ==
    (report.has /\ StringFields # <<>>) =>
        \A d \in Docs :
            (/\ Stands(FirstString, d)
             /\ d.hasError /\ d.message.has /\ d.message.v # ""
             /\ d.available.kind = "array")
            => LET n == Len(d.available.items)
               IN  /\ report.out.kind = "summary"
                   /\ Listed = SubSeq(d.available.items, 1,
                                      IF n < 12 THEN n ELSE 12)
                   /\ OverflowShown = IF n > 12 THEN {n - 12} ELSE {}

\* a doubly quoted error string with fifteen providers: twelve listed, and
\* three more counted
C24_Witness ==
    /\ report.has /\ StringFields # <<>>
    /\ startsWith(trim(FirstString), <<"\"">>)
    /\ \E d \in Docs :
          Stands(FirstString, d) /\ d.available = Array(Providers(15))
    /\ report.out.kind = "summary"
    /\ Len(Listed) = 12 /\ OverflowShown = {3}

\* the price per token a numeric string stands for, in millionths of a dollar
PerToken ==
    [str \in NumericPrices |->
        CASE str = "0" -> 0
          [] str = "0.000001" -> 1
          [] str = "0.000002" -> 2
          [] str = "0.00001" -> 10]

\* both components of the blended price are present and numbers
BothNumeric(m) ==
    /\ m.pricing.has
    /\ m.pricing.prompt.has /\ m.pricing.prompt.v \in NumericPrices
    /\ m.pricing.completion.has /\ m.pricing.completion.v \in NumericPrices

\* (prompt + completion) x 1,000,000 / 2, in tenths of a dollar
BlendedTenths(m) ==
    ((PerToken[m.pricing.prompt.v] + PerToken[m.pricing.completion.v]) * 10) \div 2

\* C25: modelPricePer1M is (prompt price + completion price) x 1,000,000 / 2
\* when both prices are present and numeric, 1.5 for 0.000001 and 0.000002,
\* and unknown when either is absent or not numeric; zero never stands in
\* for a missing component: the price shown with a choice is that value, and
\* no model with a missing component passes a price filter.
C25_BlendedPriceOrUnknown ==
    /\ \A m \in Elements(wizard.allModels) :
          modelPricePer1M(m) =
              IF BothNumeric(m) THEN [known |-> TRUE, tenths |-> BlendedTenths(m)]
              ELSE [known |-> FALSE, tenths |-> 0]
    /\ \A m \in Elements(wizard.filtered) : BothNumeric(m)
    /\ \A i \in 1..Len(wizard.choices) :
          \E m \in Elements(wizard.filtered) :
              /\ m.id = wizard.choices[i].value
              /\ wizard.choices[i].price.known
              /\ wizard.choices[i].price.tenths = BlendedTenths(m)

\* the choices show 1.5 for the model priced 0.000001 and 0.000002, and a
\* text-only model without a completion price was filtered out
C25_Witness ==
    /\ wizard.pc = "model"
    /\ \E i \in 1..Len(wizard.choices) :
          /\ wizard.choices[i].price = [known |-> TRUE, tenths |-> 15]
          /\ \E m \in Elements(wizard.filtered) :
                /\ m.id = wizard.choices[i].value
                /\ m.pricing.prompt = Some("0.000001")
                /\ m.pricing.completion = Some("0.000002")
    /\ \E m \in Elements(wizard.textModels) :
          /\ m.pricing.has /\ m.pricing.prompt.has /\ ~m.pricing.completion.has
          /\ m \notin Elements(wizard.filtered)

\* the modalities of one side reduce to {text}
OnlyText(side) ==
    /\ side.has /\ side.v # <<>>
    /\ \A i \in 1..Len(side.v) : side.v[i] = "text"

\* one side names a modality that is not text
NamesOther(side) == side.has /\ \E i \in 1..Len(side.v) : side.v[i] # "text"

\* C26: isTextOnlyModel is true only when the input and the output
\* modalities both reduce to {text}; it is false when either side names
\* another modality, and false for a model without architecture metadata.
C26_TextOnlyBothSides ==
    \A m \in Elements(wizard.allModels) :
        /\ m \in Elements(wizard.textModels) =>
              /\ m.architecture.has
              /\ OnlyText(m.architecture.input)
              /\ OnlyText(m.architecture.output)
        /\ (\/ ~m.architecture.has
            \/ NamesOther(m.architecture.input)
            \/ NamesOther(m.architecture.output))
           => m \notin Elements(wizard.textModels)

\* of two models fetched, the one whose input names text twice is kept and
\* the one with image output is not
C26_Witness ==
    /\ wizard.pc = "pricing"
    /\ Len(wizard.allModels) = 2 /\ Len(wizard.textModels) = 1
    /\ Len(wizard.textModels[1].architecture.input.v) = 2
    /\ \E m \in Elements(wizard.allModels) :
          m.architecture.has /\ NamesOther(m.architecture.output)
====
